---------------------------- MODULE Spec2Model ----------------------------
(***************************************************************************)
(* Model of the backtest simulator of src/src/backup/backtest.py: the      *)
(* position/trade ledger (Backtest._execute_buy / _execute_sell), the      *)
(* replay loop (Backtest.run), the result assembly (_create_result) and    *)
(* the metrics engine (BacktestResult.calculate_metrics).                  *)
(*                                                                         *)
(* Money, prices and quantities are Python floats in the source.  They are *)
(* modelled as exact rationals (sign, numerator, denominator) over         *)
(* arbitrary-precision naturals, because TLC integers are 32 bits wide and *)
(* the ledger values of a three-bar run need more than twenty digits.      *)
(***************************************************************************)
EXTENDS Integers, Sequences, FiniteSets, TLC

-----------------------------------------------------------------------------
(* Arbitrary-precision naturals: little-endian sequences of limbs in base  *)
(* Base, without leading zero limbs; zero is the empty sequence.           *)

Base == 10^4

RECURSIVE NStrip(_)
NStrip(a) ==
    IF a = <<>> THEN <<>>
    ELSE IF a[Len(a)] = 0 THEN NStrip(SubSeq(a, 1, Len(a) - 1))
    ELSE a

RECURSIVE NFromInt(_)
NFromInt(k) ==
    IF k = 0 THEN <<>> ELSE <<k % Base>> \o NFromInt(k \div Base)

RECURSIVE NAddC(_, _, _)
NAddC(a, b, c) ==
    IF a = <<>> /\ b = <<>> THEN (IF c = 0 THEN <<>> ELSE <<c>>)
    ELSE LET x == IF a = <<>> THEN 0 ELSE a[1]
             y == IF b = <<>> THEN 0 ELSE b[1]
             t == x + y + c
         IN  <<t % Base>> \o NAddC(IF a = <<>> THEN <<>> ELSE Tail(a),
                                   IF b = <<>> THEN <<>> ELSE Tail(b),
                                   t \div Base)

NAdd(a, b) == NAddC(a, b, 0)

\* a - b for a >= b
RECURSIVE NSubB(_, _, _)
NSubB(a, b, c) ==
    IF a = <<>> THEN <<>>
    ELSE LET y == IF b = <<>> THEN 0 ELSE b[1]
             t == a[1] - y - c
         IN  <<IF t < 0 THEN t + Base ELSE t>>
             \o NSubB(Tail(a), IF b = <<>> THEN <<>> ELSE Tail(b),
                      IF t < 0 THEN 1 ELSE 0)

NSub(a, b) == NStrip(NSubB(a, b, 0))

\* -1, 0, 1 as a < b, a = b, a > b
RECURSIVE NCmpAt(_, _, _)
NCmpAt(a, b, i) ==
    IF i = 0 THEN 0
    ELSE IF a[i] < b[i] THEN -1
    ELSE IF a[i] > b[i] THEN 1
    ELSE NCmpAt(a, b, i - 1)

NCmp(a, b) ==
    IF Len(a) < Len(b) THEN -1
    ELSE IF Len(a) > Len(b) THEN 1
    ELSE NCmpAt(a, b, Len(a))

\* a * k for one limb k
RECURSIVE NMulLimbC(_, _, _)
NMulLimbC(a, k, c) ==
    IF a = <<>> THEN (IF c = 0 THEN <<>> ELSE <<c>>)
    ELSE LET t == a[1] * k + c
         IN  <<t % Base>> \o NMulLimbC(Tail(a), k, t \div Base)

NMulLimb(a, k) == IF k = 0 THEN <<>> ELSE NMulLimbC(a, k, 0)

RECURSIVE NMul(_, _)
NMul(a, b) ==
    IF a = <<>> \/ b = <<>> THEN <<>>
    ELSE IF b = <<1>> THEN a
    ELSE IF a = <<1>> THEN b
    ELSE IF Len(a) = 1 /\ Len(b) = 1 THEN NFromInt(a[1] * b[1])
    ELSE LET rest == NMul(a, Tail(b))
         IN  NAdd(NMulLimb(a, b[1]), IF rest = <<>> THEN <<>> ELSE <<0>> \o rest)

\* a mod k and a div k for a small k
RECURSIVE NModSmallAt(_, _, _, _)
NModSmallAt(a, k, i, r) ==
    IF i = 0 THEN r ELSE NModSmallAt(a, k, i - 1, (r * Base + a[i]) % k)

NModSmall(a, k) == NModSmallAt(a, k, Len(a), 0)

RECURSIVE NDivSmallAt(_, _, _, _)
NDivSmallAt(a, k, i, r) ==
    IF i = 0 THEN <<>>
    ELSE LET t == r * Base + a[i]
         IN  NDivSmallAt(a, k, i - 1, t % k) \o <<t \div k>>

NDivSmall(a, k) == NStrip(NDivSmallAt(a, k, Len(a), 0))

-----------------------------------------------------------------------------
(* Rationals [s, n, d]: sign s in {-1, 0, 1}, magnitude n / d.  d = <<>>   *)
(* (zero) with s = 1 stands for float('inf').                              *)

\* the primes of the prices, rates and counts of this model: a denominator
\* built from them is kept in lowest terms
Primes == <<2, 3, 5, 11, 101>>

RECURSIVE ReduceBy(_, _, _)
ReduceBy(n, d, i) ==
    IF i > Len(Primes) \/ d = <<1>> THEN <<n, d>>
    ELSE IF NModSmall(d, Primes[i]) = 0 /\ NModSmall(n, Primes[i]) = 0
         THEN ReduceBy(NDivSmall(n, Primes[i]), NDivSmall(d, Primes[i]), i)
         ELSE ReduceBy(n, d, i + 1)

RMake(s, n, d) ==
    IF n = <<>> \/ s = 0 THEN [s |-> 0, n |-> <<>>, d |-> <<1>>]
    ELSE LET r == ReduceBy(n, d, 1) IN [s |-> s, n |-> r[1], d |-> r[2]]

\* the rational p / q of two small integers, q > 0
RFrac(p, q) ==
    RMake(IF p < 0 THEN -1 ELSE IF p = 0 THEN 0 ELSE 1,
          NFromInt(IF p < 0 THEN -p ELSE p), NFromInt(q))

RInt(p) ==
    [s |-> IF p < 0 THEN -1 ELSE IF p = 0 THEN 0 ELSE 1,
     n |-> NFromInt(IF p < 0 THEN -p ELSE p), d |-> <<1>>]
Zero == [s |-> 0, n |-> <<>>, d |-> <<1>>]
One == [s |-> 1, n |-> <<1>>, d |-> <<1>>]
Hundred == [s |-> 1, n |-> <<100>>, d |-> <<1>>]
Inf == [s |-> 1, n |-> <<1>>, d |-> <<>>]

IsInf(x) == x.d = <<>>

RNeg(x) == [x EXCEPT !.s = -x.s]
RAbs(x) == [x EXCEPT !.s = IF x.s = 0 THEN 0 ELSE 1]

\* |a - b| given c, the comparison of a with b
NDiff(a, b, c) == NSub(IF c >= 0 THEN a ELSE b, IF c >= 0 THEN b ELSE a)

\* sx * a / d + sy * b / d for sx, sy # 0
RAddOver(sx, a, sy, b, d, c) ==
    RMake(IF sx = sy THEN sx ELSE sx * c,
          IF sx = sy THEN NAdd(a, b) ELSE NDiff(a, b, c), d)

RAddAligned(sx, a, sy, b, d) == RAddOver(sx, a, sy, b, d, NCmp(a, b))

RAdd(x, y) ==
    IF x.s = 0 THEN y
    ELSE IF y.s = 0 THEN x
    ELSE RAddAligned(x.s, IF x.d = y.d THEN x.n ELSE NMul(x.n, y.d),
                     y.s, IF x.d = y.d THEN y.n ELSE NMul(y.n, x.d),
                     IF x.d = y.d THEN x.d ELSE NMul(x.d, y.d))

RSub(x, y) == RAdd(x, RNeg(y))

RMul(x, y) == RMake(x.s * y.s, NMul(x.n, y.n), NMul(x.d, y.d))

\* x / y for y # 0
RDiv(x, y) == RMake(x.s * y.s, NMul(x.n, y.d), NMul(x.d, y.n))

\* -1, 0, 1 as x < y, x = y, x > y
RCmp(x, y) ==
    IF x.s # y.s THEN (IF x.s < y.s THEN -1 ELSE 1)
    ELSE x.s * NCmp(NMul(x.n, y.d), NMul(y.n, x.d))

REq(x, y) == RCmp(x, y) = 0
RLe(x, y) == RCmp(x, y) <= 0
RLt(x, y) == RCmp(x, y) < 0

-----------------------------------------------------------------------------
(* Bounds of the model.                                                    *)

MaxBars == 2        \* longest price series
MaxSignals == 2     \* longest signal list a strategy emits

(* Inputs.  Prices are bar closes; the rates are the constructor           *)
(* arguments of Backtest.  Bar i of the series carries timestamp i, so the *)
(* index is strictly increasing; a signal timestamp past the end of the    *)
(* series belongs to no bar.                                               *)

Prices == {100, 110, 200}
FirstPrices == {100}
\* <<fee_rate, slippage, position_size>>
Configs ==
    {<<RFrac(1, 1000), Zero, RFrac(1, 10)>>,
     <<Zero, Zero, One>>,
     <<RFrac(1, 1000), RFrac(1, 100), One>>,
     <<RFrac(1, 1000), Zero, Zero>>}
InitialCapitals == {RInt(10000)}
\* <<signal_type, timestamp>> of the signals a strategy emits
Emittable == ({"BUY", "SELL"} \X {1, 2}) \cup {<<"HOLD", 1>>}

RECURSIVE SeqsUpTo(_, _)
SeqsUpTo(S, n) ==
    IF n = 0 THEN {<<>>}
    ELSE LET shorter == SeqsUpTo(S, n - 1)
         IN  shorter \cup {Append(q, x) : q \in {r \in shorter : Len(r) = n - 1}, x \in S}

\* None of Python, for an optional number, an optional instant and an
\* optional object
NoneNum == [s |-> 0, n |-> <<>>, d |-> <<>>]
NoneTime == -1
None == [status |-> "None"]

\* the outcome of a call that raises
Raised(exception) == [status |-> "raised", exception |-> exception]

\* the columns of the price frame: with or without the 'symbol' column that
\* the download script adds.  The column is read at row 0 only, which every
\* non-empty frame has, so the choice is left open for the empty frame only.
ColumnSets == {{"close"}, {"close", "symbol"}}

-----------------------------------------------------------------------------
VARIABLES
    \* Backtest.__init__ arguments
    data,             \* the price series: sequence of [timestamp, close]
    columns,          \* the column names of the price frame
    initial_capital, fee_rate, slippage, position_size,
    \* Backtest state
    capital, equity, position, position_value, trades, equity_curve,
    open_trade,
    \* position of run(): local variables and program counter
    pc,               \* "start", "bar", "signals", "close", "result", "done"
    signals,          \* the sorted signal list
    bar,              \* index of the bar being processed
    current_signals,  \* signals of the current bar
    k,                \* index of the next signal of current_signals
    result,           \* the BacktestResult returned, None before
    \* history of the calls made, for stating the properties
    calls,            \* sequence of [op, signal, bar, price, before, after]
    \* StrategyFactory
    strategy_classes, \* the registry _strategy_classes: type -> class
    factory_call,     \* the last call made on the factory, None before
    \* CSVStorage
    directory,        \* the names of the files under base_path
    metadata,         \* the in-memory metadata mapping: file name -> mapping
    metadata_json,    \* the mapping stored in metadata.json
    storage_log,      \* the save_data and delete_data calls made so far
    storage_call,     \* the last call made on the store, None before
    \* Signal
    signal_args,      \* the arguments of the constructor
    signal_object,    \* the constructed Signal, None before
    \* Strategy
    strategy_object,  \* the strategy: its name, params and kind of validator
    strategy_call,    \* the last update_parameters call, None before
    \* DatabaseManager
    storage_instances, \* the cache: storage type -> storage instance
    manager_log       \* the get_storage and close_all calls made so far

params == <<data, columns, initial_capital, fee_rate, slippage, position_size>>
ledger == <<capital, position, position_value, trades, open_trade>>
locals == <<pc, signals, bar, current_signals, k>>
backtest_vars == <<params, ledger, equity, equity_curve, locals, result, calls>>
factory_vars == <<strategy_classes, factory_call>>
storage_vars == <<directory, metadata, metadata_json, storage_log, storage_call>>
signal_vars == <<signal_args, signal_object>>
strategy_vars == <<strategy_object, strategy_call>>
manager_vars == <<storage_instances, manager_log>>
components ==
    <<factory_vars, storage_vars, signal_vars, strategy_vars, manager_vars>>
vars == <<backtest_vars, components>>

\* a component that takes no part in the specification at hand: no object of
\* it has been constructed
BacktestIdle ==
    /\ data = <<>> /\ columns = {} /\ initial_capital = NoneNum
    /\ fee_rate = NoneNum /\ slippage = NoneNum /\ position_size = NoneNum
    /\ capital = NoneNum /\ equity = NoneNum /\ position = NoneNum
    /\ position_value = NoneNum /\ trades = <<>> /\ equity_curve = <<>>
    /\ open_trade = None /\ pc = "idle" /\ signals = <<>> /\ bar = 0
    /\ current_signals = <<>> /\ k = 0 /\ result = None /\ calls = <<>>

FactoryIdle == strategy_classes = <<>> /\ factory_call = None

StorageIdle ==
    /\ directory = {} /\ metadata = <<>> /\ metadata_json = <<>>
    /\ storage_log = <<>> /\ storage_call = None

SignalIdle == signal_args = None /\ signal_object = None

StrategyIdle == strategy_object = None /\ strategy_call = None

ManagerIdle == storage_instances = <<>> /\ manager_log = <<>>

\* the ledger fields as one value
Ledger ==
    [capital |-> capital, position |-> position,
     position_value |-> position_value, trades |-> trades,
     open_trade |-> open_trade]

-----------------------------------------------------------------------------
(* Backtest._execute_buy and Backtest._execute_sell                        *)

\* lines 399-404 and 469-474 without the status assignment of lines 403, 473
closed_record_status_kept(t, signal, exit_price, profit_loss, profit_loss_pct) ==
    [t EXCEPT
        !.exit_time = signal.timestamp,
        !.exit_price = exit_price,
        !.profit_loss = profit_loss,
        !.profit_loss_pct = profit_loss_pct,
        !.exit_signal = signal]

\* lines 399-404 and 469-474: the open trade record is filled in and closed
closed_record(t, signal, exit_price, profit_loss, profit_loss_pct) ==
    [t EXCEPT
        !.exit_time = signal.timestamp,
        !.exit_price = exit_price,
        !.profit_loss = profit_loss,
        !.profit_loss_pct = profit_loss_pct,
        !.status = "closed",
        !.exit_signal = signal]

\* line 401 changed to leave the closing fee out of the trade's profit
short_profit_loss_gross(entry_price, exit_price, quantity, fee) ==
    RMul(RSub(entry_price, exit_price), quantity)

\* line 401
short_profit_loss(entry_price, exit_price, quantity, fee) ==
    RSub(RMul(RSub(entry_price, exit_price), quantity), fee)

\* line 471 changed to charge the entry fee to the trade as well
long_profit_loss_net_of_entry_fee(entry_price, exit_price, quantity, fee) ==
    RSub(RSub(RMul(RSub(exit_price, entry_price), quantity), fee),
         RMul(RMul(entry_price, quantity), fee_rate))

\* line 471 changed to leave the closing fee out of the trade's profit
long_profit_loss_gross(entry_price, exit_price, quantity, fee) ==
    RMul(RSub(exit_price, entry_price), quantity)

\* line 471
long_profit_loss(entry_price, exit_price, quantity, fee) ==
    RSub(RMul(RSub(exit_price, entry_price), quantity), fee)

\* lines 383-408: cover the short position; the locals of the code are the
\* parameters of the steps below
CloseShort(L, signal, price) ==
    LET cover_quantity == RAbs(L.position)
        t == L.open_trade
        Settle(price_with_slippage, cost, fee, entry_price) ==
            [L EXCEPT
                !.capital = RSub(L.capital, RAdd(cost, fee)),
                !.position = Zero,
                !.position_value = Zero,
                !.trades =
                    IF t # None
                    THEN Append(L.trades,
                        closed_record(t, signal, price_with_slippage,
                            short_profit_loss(entry_price, price_with_slippage,
                                              cover_quantity, fee),
                            RMul(RDiv(RSub(entry_price, price_with_slippage),
                                      entry_price), Hundred)))
                    ELSE L.trades,
                !.open_trade = None]
        Charge(price_with_slippage, cost) ==
            Settle(price_with_slippage, cost, RMul(cost, fee_rate),
                   IF t # None THEN t.entry_price ELSE NoneNum)
        Fill(price_with_slippage) ==
            Charge(price_with_slippage, RMul(cover_quantity, price_with_slippage))
    IN  Fill(RMul(price, RAdd(One, slippage)))

\* line 420: the capital guard of a long entry
BuyGuard(cost, fee, cap) == RLe(RAdd(cost, fee), cap)

\* lines 411-442: open a long position
OpenLong(L, signal, price) ==
    LET Settle(price_with_slippage, quantity, cost, fee) ==
            IF BuyGuard(cost, fee, L.capital)
            THEN [L EXCEPT
                    !.capital = RSub(L.capital, RAdd(cost, fee)),
                    !.position = quantity,
                    !.position_value = RMul(quantity, price),
                    !.open_trade =
                        [entry_time |-> signal.timestamp, exit_time |-> NoneTime,
                         direction |-> "long", entry_price |-> price_with_slippage,
                         exit_price |-> NoneNum, quantity |-> quantity,
                         profit_loss |-> NoneNum, profit_loss_pct |-> NoneNum,
                         status |-> "open", entry_signal |-> signal,
                         exit_signal |-> None]]
            ELSE L
        Charge(price_with_slippage, quantity, cost) ==
            Settle(price_with_slippage, quantity, cost, RMul(cost, fee_rate))
        Size(price_with_slippage, quantity) ==
            Charge(price_with_slippage, quantity,
                   RMul(quantity, price_with_slippage))
        Fill(price_with_slippage, buy_amount) ==
            Size(price_with_slippage, RDiv(buy_amount, price_with_slippage))
    IN  Fill(RMul(price, RAdd(One, slippage)), RMul(L.capital, position_size))

\* lines 374-442 with the test of line 411 changed to position >= 0
execute_buy_pyramiding(L, signal, price) ==
    LET Enter(L1) ==
            IF L1.position.s >= 0 THEN OpenLong(L1, signal, price) ELSE L1
    IN  Enter(IF L.position.s < 0 THEN CloseShort(L, signal, price) ELSE L)

\* lines 374-442
execute_buy(L, signal, price) ==
    LET Enter(L1) ==
            IF L1.position.s = 0 THEN OpenLong(L1, signal, price) ELSE L1
    IN  Enter(IF L.position.s < 0 THEN CloseShort(L, signal, price) ELSE L)

\* lines 453-478: sell the long position
CloseLong(L, signal, price) ==
    LET sell_quantity == L.position
        t == L.open_trade
        Settle(price_with_slippage, proceeds, fee, entry_price) ==
            [L EXCEPT
                !.capital = RAdd(L.capital, RSub(proceeds, fee)),
                !.position = Zero,
                !.position_value = Zero,
                !.trades =
                    IF t # None
                    THEN Append(L.trades,
                        closed_record(t, signal, price_with_slippage,
                            long_profit_loss(entry_price, price_with_slippage,
                                             sell_quantity, fee),
                            RMul(RDiv(RSub(price_with_slippage, entry_price),
                                      entry_price), Hundred)))
                    ELSE L.trades,
                !.open_trade = None]
        Charge(price_with_slippage, proceeds) ==
            Settle(price_with_slippage, proceeds, RMul(proceeds, fee_rate),
                   IF t # None THEN t.entry_price ELSE NoneNum)
        Fill(price_with_slippage) ==
            Charge(price_with_slippage, RMul(sell_quantity, price_with_slippage))
    IN  Fill(RMul(price, RSub(One, slippage)))

\* lines 481-508 changed to size the short from initial_capital
OpenShort_from_initial_capital(L, signal, price) ==
    LET Settle(price_with_slippage, quantity, proceeds, fee) ==
            [L EXCEPT
                !.capital = RAdd(L.capital, RSub(proceeds, fee)),
                !.position = RNeg(quantity),
                !.position_value = RMul(quantity, price),
                !.open_trade =
                    [entry_time |-> signal.timestamp, exit_time |-> NoneTime,
                     direction |-> "short", entry_price |-> price_with_slippage,
                     exit_price |-> NoneNum, quantity |-> quantity,
                     profit_loss |-> NoneNum, profit_loss_pct |-> NoneNum,
                     status |-> "open", entry_signal |-> signal,
                     exit_signal |-> None]]
        Charge(price_with_slippage, quantity, proceeds) ==
            Settle(price_with_slippage, quantity, proceeds,
                   RMul(proceeds, fee_rate))
        Size(price_with_slippage, quantity) ==
            Charge(price_with_slippage, quantity,
                   RMul(quantity, price_with_slippage))
        Fill(price_with_slippage, sell_amount) ==
            Size(price_with_slippage, RDiv(sell_amount, price_with_slippage))
    IN  Fill(RMul(price, RSub(One, slippage)),
             RMul(initial_capital, position_size))

\* lines 481-508: open a short position; there is no capital guard here
OpenShort(L, signal, price) ==
    LET Settle(price_with_slippage, quantity, proceeds, fee) ==
            [L EXCEPT
                !.capital = RAdd(L.capital, RSub(proceeds, fee)),
                !.position = RNeg(quantity),
                !.position_value = RMul(quantity, price),
                !.open_trade =
                    [entry_time |-> signal.timestamp, exit_time |-> NoneTime,
                     direction |-> "short", entry_price |-> price_with_slippage,
                     exit_price |-> NoneNum, quantity |-> quantity,
                     profit_loss |-> NoneNum, profit_loss_pct |-> NoneNum,
                     status |-> "open", entry_signal |-> signal,
                     exit_signal |-> None]]
        Charge(price_with_slippage, quantity, proceeds) ==
            Settle(price_with_slippage, quantity, proceeds,
                   RMul(proceeds, fee_rate))
        Size(price_with_slippage, quantity) ==
            Charge(price_with_slippage, quantity,
                   RMul(quantity, price_with_slippage))
        Fill(price_with_slippage, sell_amount) ==
            Size(price_with_slippage, RDiv(sell_amount, price_with_slippage))
    IN  Fill(RMul(price, RSub(One, slippage)), RMul(L.capital, position_size))

\* lines 444-508 changed to close the long position without opening a short
execute_sell_close_only(L, signal, price) ==
    IF L.position.s > 0 THEN CloseLong(L, signal, price)
    ELSE IF L.position.s = 0 THEN OpenShort(L, signal, price)
    ELSE L

\* lines 444-508
execute_sell(L, signal, price) ==
    LET Enter(L1) ==
            IF L1.position.s = 0 THEN OpenShort(L1, signal, price) ELSE L1
    IN  Enter(IF L.position.s > 0 THEN CloseLong(L, signal, price) ELSE L)

-----------------------------------------------------------------------------
(* BacktestResult.calculate_metrics and calculate_max_drawdown             *)

RECURSIVE RSum(_)
RSum(q) == IF q = <<>> THEN Zero ELSE RAdd(q[1], RSum(Tail(q)))

RMax(x, y) == IF RLt(x, y) THEN y ELSE x

Map(q, Op(_)) == [i \in 1..Len(q) |-> Op(q[i])]

\* Python truthiness of an optional float: None and 0.0 are false
Truthy(x) == x # NoneNum /\ x.s # 0

\* lines 85-102 changed to report the Sharpe ratio as NaN
ZeroMetrics_nan_sharpe ==
    [total_return |-> Zero, total_return_pct |-> Zero,
     annualized_return |-> Zero, max_drawdown |-> Zero,
     max_drawdown_pct |-> Zero, sharpe_ratio |-> [kind |-> "nan"],
     win_rate |-> Zero, profit_factor |-> Zero, total_trades |-> 0,
     winning_trades |-> 0, losing_trades |-> 0, avg_profit |-> Zero,
     avg_loss |-> Zero, avg_profit_pct |-> Zero, avg_loss_pct |-> Zero,
     avg_trade_duration |-> Zero]

\* lines 85-102: the metrics of a result without trades
ZeroMetrics ==
    [total_return |-> Zero, total_return_pct |-> Zero,
     annualized_return |-> Zero, max_drawdown |-> Zero,
     max_drawdown_pct |-> Zero, sharpe_ratio |-> Zero, win_rate |-> Zero,
     profit_factor |-> Zero, total_trades |-> 0, winning_trades |-> 0,
     losing_trades |-> 0, avg_profit |-> Zero, avg_loss |-> Zero,
     avg_profit_pct |-> Zero, avg_loss_pct |-> Zero,
     avg_trade_duration |-> Zero]

\* np.maximum.accumulate
RECURSIVE MaxAccumulate(_, _)
MaxAccumulate(values, i) ==
    IF i = 1 THEN values[1]
    ELSE RMax(MaxAccumulate(values, i - 1), values[i])

RECURSIVE RMaxOf(_)
RMaxOf(q) == IF Len(q) = 1 THEN q[1] ELSE RMax(q[1], RMaxOf(Tail(q)))

\* lines 170-189 changed to measure every sample against the highest sample
\* of the whole curve
calculate_max_drawdown_from_peak(values) ==
    LET Deepest(peak) ==
            <<RMaxOf([i \in 1..Len(values) |-> RSub(peak, values[i])]),
              RMaxOf([i \in 1..Len(values) |->
                        RMul(RDiv(RSub(peak, values[i]), peak), Hundred)])>>
    IN  Deepest(RMaxOf(values))

\* lines 170-189; values is a non-empty sequence with a non-zero running
\* maximum
calculate_max_drawdown(values) ==
    LET Deepest(max_equity, drawdown) ==
            <<RMaxOf(drawdown),
              RMaxOf([i \in 1..Len(values) |->
                        RMul(RDiv(drawdown[i], max_equity[i]), Hundred)])>>
        Drawdown(max_equity) ==
            Deepest(max_equity,
                    [i \in 1..Len(values) |-> RSub(max_equity[i], values[i])])
    IN  Drawdown([i \in 1..Len(values) |-> MaxAccumulate(values, i)])

\* line 138 changed to yield 0 whenever there is no loss
profit_factor_zero_without_loss(gross_profit, gross_loss) ==
    IF gross_loss.s # 0 THEN RDiv(gross_profit, gross_loss) ELSE Zero

\* line 138
profit_factor_of(gross_profit, gross_loss) ==
    IF gross_loss.s # 0 THEN RDiv(gross_profit, gross_loss)
    ELSE IF gross_profit.s = 0 THEN Zero
    ELSE Inf

\* lines 119-124; the power is kept as a term [base ^ (365 / days)] unless
\* it is rational for every exponent
annualized_return_of(total_return_pct, days) ==
    IF days > 0
    THEN LET Annualize(base) ==
                 IF REq(base, One) \/ base.s = 0 THEN RMul(RSub(base, One), Hundred)
                 ELSE [kind |-> "power", base |-> base, days |-> days]
         IN  Annualize(RAdd(One, RDiv(total_return_pct, Hundred)))
    ELSE Zero

\* lines 126-131; pandas' sample standard deviation of one value is NaN, and
\* NaN != 0, so a curve of two samples yields NaN; the quotient of mean and
\* standard deviation is kept as a term
sharpe_ratio_of(values) ==
    IF Len(values) > 1
    THEN LET n == Len(values) - 1
         IN  IF \E i \in 1..n : values[i].s = 0 THEN [kind |-> "nonfinite"]
             ELSE LET Ratio(daily_returns) ==
                          IF n = 1 THEN [kind |-> "nan"]
                          ELSE IF \A i \in 1..n : REq(daily_returns[i], daily_returns[1])
                          THEN Zero
                          ELSE [kind |-> "mean_over_std", returns |-> daily_returns]
                  IN  Ratio([i \in 1..n |->
                               RDiv(RSub(values[i + 1], values[i]), values[i])])
    ELSE Zero

\* lines 81-168
calculate_metrics(tr, values, ic, start_date, end_date) ==
    IF Len(tr) = 0 THEN ZeroMetrics
    ELSE
    LET IsClosed(t) == t.status = "closed"
        IsWin(t) == Truthy(t.profit_loss) /\ t.profit_loss.s > 0
        IsLoss(t) == Truthy(t.profit_loss) /\ t.profit_loss.s <= 0
        PL(t) == t.profit_loss
        PLPct(t) == t.profit_loss_pct
        Duration(t) == RInt(t.exit_time - t.entry_time)
        HasExit(t) == t.exit_time # NoneTime
        closed_trades == SelectSeq(tr, IsClosed)
        total_trades == Len(closed_trades)
        winning_trades == SelectSeq(closed_trades, IsWin)
        losing_trades == SelectSeq(closed_trades, IsLoss)
        final_equity == values[Len(values)]
        days == end_date - start_date
        win_rate == IF total_trades > 0
                    THEN RFrac(Len(winning_trades), total_trades) ELSE Zero
        durations == Map(SelectSeq(closed_trades, HasExit), Duration)
        Mean(total, q) == IF q # <<>> THEN RDiv(total, RInt(Len(q))) ELSE Zero
        Report(total_return_pct, dd, gross_profit, gross_loss) ==
            [total_return |-> RSub(final_equity, ic),
             total_return_pct |-> total_return_pct,
             annualized_return |-> annualized_return_of(total_return_pct, days),
             max_drawdown |-> dd[1],
             max_drawdown_pct |-> dd[2],
             sharpe_ratio |-> sharpe_ratio_of(values),
             win_rate |-> RMul(win_rate, Hundred),
             profit_factor |-> profit_factor_of(gross_profit, gross_loss),
             total_trades |-> total_trades,
             winning_trades |-> Len(winning_trades),
             losing_trades |-> Len(losing_trades),
             avg_profit |-> Mean(gross_profit, winning_trades),
             avg_loss |-> Mean(gross_loss, losing_trades),
             avg_profit_pct |-> Mean(RSum(Map(winning_trades, PLPct)), winning_trades),
             avg_loss_pct |-> Mean(RSum(Map(losing_trades, PLPct)), losing_trades),
             avg_trade_duration |-> Mean(RSum(durations), durations)]
    IN  Report(RMul(RDiv(RSub(final_equity, ic), ic), Hundred),
               calculate_max_drawdown(values),
               RSum(Map(winning_trades, PL)),
               RAbs(RSum(Map(losing_trades, PL))))

-----------------------------------------------------------------------------
(* Backtest._create_result                                                 *)

\* pd.Timestamp.now(): the wall clock, later than every bar
NowTimes == {1000, 1001}

\* lines 518-522 changed to fall back to one sample per bar
equity_series_per_bar(curve, now) ==
    IF curve # <<>> THEN curve
    ELSE IF data = <<>> THEN <<[timestamp |-> now, equity |-> initial_capital]>>
    ELSE [i \in 1..Len(data) |->
             [timestamp |-> data[i].timestamp, equity |-> initial_capital]]

\* lines 518-522 changed to add a sample of the final ledger
equity_series_with_final(curve, now) ==
    IF curve # <<>>
    THEN Append(curve, [timestamp |-> data[Len(data)].timestamp,
                        equity |-> RAdd(capital, position_value)])
    ELSE <<[timestamp |-> IF data # <<>> THEN data[1].timestamp ELSE now,
            equity |-> initial_capital]>>

\* lines 518-522: the equity series of the result, as (timestamp, value)
\* pairs; one sample of initial capital when no sample was recorded
equity_series_of(curve, now) ==
    IF curve # <<>> THEN curve
    ELSE <<[timestamp |-> IF data # <<>> THEN data[1].timestamp ELSE now,
            equity |-> initial_capital]>>

\* lines 510-545; line 529 reads row 0 of the 'symbol' column, which an
\* empty frame does not have (IndexError)
create_result(tr, curve, now) ==
    IF data = <<>> /\ "symbol" \in columns THEN Raised("IndexError")
    ELSE
    LET equity_series == equity_series_of(curve, now[1])
        start_date == IF data # <<>> THEN data[1].timestamp ELSE now[2]
        end_date == IF data # <<>> THEN data[Len(data)].timestamp ELSE now[3]
        Value(sample) == sample.equity
    IN  [trades |-> tr,
         equity_curve |-> equity_series,
         initial_capital |-> initial_capital,
         start_date |-> start_date,
         end_date |-> end_date,
         metrics |-> calculate_metrics(tr, Map(equity_series, Value),
                                       initial_capital, start_date, end_date)]

\* three successive readings of the wall clock; it is read only when the
\* price series is empty
NowTriples ==
    IF data = <<>>
    THEN {n \in NowTimes \X NowTimes \X NowTimes : n[1] <= n[2] /\ n[2] <= n[3]}
    ELSE {<<0, 0, 0>>}

-----------------------------------------------------------------------------
(* Backtest.run                                                            *)

\* line 331 with a sort that puts a signal before the earlier ones of its
\* timestamp
RECURSIVE InsertSorted_unstable(_, _)
InsertSorted_unstable(q, x) ==
    IF q = <<>> THEN <<x>>
    ELSE IF q[Len(q)].timestamp < x.timestamp THEN Append(q, x)
    ELSE Append(InsertSorted_unstable(SubSeq(q, 1, Len(q) - 1), x), q[Len(q)])

\* sorted(signals, key=lambda x: x.timestamp): a stable sort
RECURSIVE InsertSorted(_, _)
InsertSorted(q, x) ==
    IF q = <<>> THEN <<x>>
    ELSE IF q[Len(q)].timestamp <= x.timestamp THEN Append(q, x)
    ELSE Append(InsertSorted(SubSeq(q, 1, Len(q) - 1), x), q[Len(q)])

RECURSIVE SortedByTimestamp(_)
SortedByTimestamp(q) ==
    IF q = <<>> THEN <<>>
    ELSE InsertSorted(SortedByTimestamp(SubSeq(q, 1, Len(q) - 1)), q[Len(q)])

\* line 344 changed to take every signal up to the bar
SignalsUpTo(sigs, index) ==
    LET Due(sig) == sig.timestamp <= index IN SelectSeq(sigs, Due)

\* line 344: the signals of the bar with the given index value
SignalsAt(sigs, index) ==
    LET Matches(sig) == sig.timestamp = index IN SelectSeq(sigs, Matches)

\* the lists a strategy can emit; id is the place in the emitted list
Emissions ==
    LET shapes == SeqsUpTo(Emittable, MaxSignals)
    IN  {[i \in 1..Len(q) |->
            [id |-> i, signal_type |-> q[i][1], timestamp |-> q[i][2],
             metadata |-> "none"]] : q \in shapes}

PriceSeries ==
    LET closes == {q \in SeqsUpTo(Prices, MaxBars) :
                      q # <<>> => q[1] \in FirstPrices}
    IN  {[i \in 1..Len(q) |-> [timestamp |-> i, close |-> RInt(q[i])]] : q \in closes}

\* lines 294-314: the state after Backtest.__init__
Init ==
    /\ data \in PriceSeries
    /\ columns \in (IF data = <<>> THEN ColumnSets ELSE {{"close", "symbol"}})
    /\ initial_capital \in InitialCapitals
    /\ \E c \in Configs :
          fee_rate = c[1] /\ slippage = c[2] /\ position_size = c[3]
    /\ capital = initial_capital
    /\ equity = initial_capital
    /\ position = Zero
    /\ position_value = Zero
    /\ trades = <<>>
    /\ equity_curve = <<>>
    /\ open_trade = None
    /\ pc = "start"
    /\ signals = <<>>
    /\ bar = 0
    /\ current_signals = <<>>
    /\ k = 0
    /\ result = None
    /\ calls = <<>>
    /\ FactoryIdle /\ StorageIdle /\ SignalIdle /\ StrategyIdle /\ ManagerIdle

SetLedger(L) ==
    /\ capital' = L.capital
    /\ position' = L.position
    /\ position_value' = L.position_value
    /\ trades' = L.trades
    /\ open_trade' = L.open_trade

\* the for loop of line 334 moves to the next bar, or ends
NextBar ==
    IF bar < Len(data)
    THEN pc' = "bar" /\ bar' = bar + 1
    ELSE pc' = "close" /\ bar' = bar

\* lines 324-328: the strategy yields no signal
RunNoSignals ==
    /\ pc = "start"
    /\ \E now \in NowTriples :
          result' = create_result(trades, equity_curve, now)
    /\ pc' = "done"
    /\ UNCHANGED <<components, params, ledger, equity, equity_curve, signals, bar,
                   current_signals, k, calls>>

\* lines 324-331: the strategy yields signals, which are sorted
RunSortSignals ==
    /\ pc = "start"
    /\ \E emitted \in Emissions :
          /\ emitted # <<>>
          /\ signals' = SortedByTimestamp(emitted)
    /\ IF data # <<>>
       THEN pc' = "bar" /\ bar' = 1
       ELSE pc' = "close" /\ bar' = 0
    /\ UNCHANGED <<components, params, ledger, equity, equity_curve, current_signals, k,
                   result, calls>>

\* lines 336-341 changed to mark to market before the sample is taken
bar_head_mark_first(L, index, current_price) ==
    [sample |-> [timestamp |-> index,
                 equity |-> RAdd(L.capital, RMul(L.position, current_price))],
     position_value |-> RMul(L.position, current_price)]

\* lines 336-341: the equity sample of a bar and the mark-to-market update
bar_head(L, index, current_price) ==
    [sample |-> [timestamp |-> index,
                 equity |-> RAdd(L.capital, L.position_value)],
     position_value |-> RMul(L.position, current_price)]

\* lines 334-344: the head of one loop iteration
BarStep ==
    /\ pc = "bar"
    /\ LET index == data[bar].timestamp
           current_price == data[bar].close
           now_signals == SignalsAt(signals, index)
       IN  \E head \in {bar_head(Ledger, index, current_price)} :
           /\ equity' = head.sample.equity
           /\ equity_curve' = Append(equity_curve, head.sample)
           /\ position_value' = head.position_value
           /\ current_signals' = now_signals
           /\ k' = 1
           /\ calls' = Append(calls,
                 [op |-> "sample", signal |-> None, bar |-> bar,
                  price |-> current_price,
                  before |-> Ledger,
                  after |-> [Ledger EXCEPT !.position_value = position_value']])
           /\ IF now_signals = <<>> THEN NextBar
              ELSE pc' = "signals" /\ bar' = bar
    /\ UNCHANGED <<components, params, capital, position, trades, open_trade, signals,
                   result>>

\* the for loop of line 346 moves to the next signal, or ends
NextSignal ==
    /\ k' = k + 1
    /\ IF k < Len(current_signals) THEN pc' = "signals" /\ bar' = bar
       ELSE NextBar

\* lines 347-348
SignalBuy ==
    /\ pc = "signals"
    /\ current_signals[k].signal_type = "BUY"
    /\ \E L \in {execute_buy(Ledger, current_signals[k], data[bar].close)} :
           /\ SetLedger(L)
           /\ calls' = Append(calls,
                 [op |-> "buy", signal |-> current_signals[k], bar |-> bar,
                  price |-> data[bar].close, before |-> Ledger, after |-> L])
    /\ NextSignal
    /\ UNCHANGED <<components, params, equity, equity_curve, signals, current_signals,
                   result>>

\* lines 349-350
SignalSell ==
    /\ pc = "signals"
    /\ current_signals[k].signal_type = "SELL"
    /\ \E L \in {execute_sell(Ledger, current_signals[k], data[bar].close)} :
           /\ SetLedger(L)
           /\ calls' = Append(calls,
                 [op |-> "sell", signal |-> current_signals[k], bar |-> bar,
                  price |-> data[bar].close, before |-> Ledger, after |-> L])
    /\ NextSignal
    /\ UNCHANGED <<components, params, equity, equity_curve, signals, current_signals,
                   result>>

\* lines 347-350: a HOLD signal matches neither branch
SignalHold ==
    /\ pc = "signals"
    /\ current_signals[k].signal_type = "HOLD"
    /\ calls' = Append(calls,
          [op |-> "hold", signal |-> current_signals[k], bar |-> bar,
           price |-> data[bar].close, before |-> Ledger, after |-> Ledger])
    /\ NextSignal
    /\ UNCHANGED <<components, params, ledger, equity, equity_curve, signals,
                   current_signals, result>>

\* lines 358-364: the synthesized closing signal
close_signal ==
    [id |-> 0,
     signal_type |-> IF position.s > 0 THEN "SELL" ELSE "BUY",
     timestamp |-> data[Len(data)].timestamp,
     metadata |-> "close_position"]

\* lines 353-367: a long position is left after the loop
ForcedCloseLong ==
    /\ pc = "close"
    /\ position.s # 0 /\ Len(data) > 0
    /\ position.s > 0
    /\ \E L \in {execute_sell(Ledger, close_signal, data[Len(data)].close)} :
           /\ SetLedger(L)
           /\ calls' = Append(calls,
                 [op |-> "close_sell", signal |-> close_signal, bar |-> bar,
                  price |-> data[Len(data)].close, before |-> Ledger, after |-> L])
    /\ pc' = "result"
    /\ UNCHANGED <<components, params, equity, equity_curve, signals, bar,
                   current_signals, k, result>>

\* lines 353-369: a short position is left after the loop
ForcedCloseShort ==
    /\ pc = "close"
    /\ position.s # 0 /\ Len(data) > 0
    /\ ~(position.s > 0)
    /\ \E L \in {execute_buy(Ledger, close_signal, data[Len(data)].close)} :
           /\ SetLedger(L)
           /\ calls' = Append(calls,
                 [op |-> "close_buy", signal |-> close_signal, bar |-> bar,
                  price |-> data[Len(data)].close, before |-> Ledger, after |-> L])
    /\ pc' = "result"
    /\ UNCHANGED <<components, params, equity, equity_curve, signals, bar,
                   current_signals, k, result>>

\* line 353: nothing to close
NoForcedClose ==
    /\ pc = "close"
    /\ ~(position.s # 0 /\ Len(data) > 0)
    /\ pc' = "result"
    /\ UNCHANGED <<components, params, ledger, equity, equity_curve, signals, bar,
                   current_signals, k, result, calls>>

\* line 372
RunCreateResult ==
    /\ pc = "result"
    /\ \E now \in NowTriples :
          result' = create_result(trades, equity_curve, now)
    /\ pc' = "done"
    /\ UNCHANGED <<components, params, ledger, equity, equity_curve, signals, bar,
                   current_signals, k, calls>>

Next ==
    \/ RunNoSignals
    \/ RunSortSignals
    \/ BarStep
    \/ SignalBuy
    \/ SignalSell
    \/ SignalHold
    \/ ForcedCloseLong
    \/ ForcedCloseShort
    \/ NoForcedClose
    \/ RunCreateResult

Spec == Init /\ [][Next]_vars

-----------------------------------------------------------------------------
(* Signal.__init__ (strategy_base.py)                                      *)

\* x or default, for an optional number
OrNum(x, default) == IF Truthy(x) THEN x ELSE default

\* the empty dict
EmptyDict == <<>>

\* x or {}, for an optional mapping: None and the empty dict are false
OrDict(x) == IF x = None \/ DOMAIN x = {} THEN EmptyDict ELSE x

\* the arguments a Signal is constructed with; strength None stands for an
\* omitted argument
Strengths == {NoneNum, Zero, RFrac(1, 2), One}
SignalArgs ==
    [symbol : {"BTC/USDT", "ETH/USDT"},
     signal_type : {"BUY", "SELL", "HOLD"},
     timestamp : {1, 2},
     price : {RInt(100)},
     volume : {NoneNum, One},
     strength : Strengths,
     metadata : {None, [type |-> "close_position"]}]

\* lines 29-55
Signal_init(a) ==
    [symbol |-> a.symbol,
     signal_type |-> a.signal_type,
     timestamp |-> a.timestamp,
     price |-> a.price,
     volume |-> a.volume,
     strength |-> OrNum(a.strength, One),
     metadata |-> OrDict(a.metadata)]

SignalInit ==
    /\ signal_args \in SignalArgs
    /\ signal_object = None
    /\ BacktestIdle /\ FactoryIdle /\ StorageIdle /\ StrategyIdle /\ ManagerIdle

\* Signal(...) is called with the arguments
SignalConstruct ==
    /\ signal_object = None
    /\ signal_object' = Signal_init(signal_args)
    /\ UNCHANGED <<backtest_vars, strategy_vars, manager_vars,
                   factory_vars, storage_vars, signal_args>>

SignalNext == SignalConstruct

SignalSpec == SignalInit /\ [][SignalNext]_vars

-----------------------------------------------------------------------------
(* StrategyFactory (strategy_factory.py)                                   *)

\* the type identifiers callers use; "unknown" is never registered
StrategyTypes == {"moving_average", "rsi", "custom"}
RequestedTypes == StrategyTypes \cup {"unknown"}

\* the strategy classes.  MovingAverageStrategy and RSIStrategy are the
\* classes of lines 13-14; AbstractStrategy is a subclass of Strategy that
\* does not implement generate_signals, so that constructing it raises
\* TypeError.
StrategyClasses == {"MovingAverageStrategy", "RSIStrategy", "AbstractStrategy"}

StrategyNames == {None, [text |-> "my strategy"]}
StrategyParams == {None, [period |-> 14]}

\* what strategy_class(name=name, params=params) can do: the constructors of
\* the two concrete classes may validate their parameters, so both a
\* returned instance and a raised exception are possible
ConstructorOutcomes(class, name, strategy_params) ==
    IF class = "AbstractStrategy" THEN {Raised("TypeError")}
    ELSE {[class |-> class, name |-> name, params |-> OrDict(strategy_params)],
          Raised("ValueError")}

\* lines 27-31: the registry at import time
InitialClasses ==
    [t \in {"moving_average", "rsi"} |->
        IF t = "moving_average" THEN "MovingAverageStrategy" ELSE "RSIStrategy"]

\* lines 34-46: the registry after register_strategy
register_strategy(classes, strategy_type, strategy_class) ==
    [t \in DOMAIN classes \cup {strategy_type} |->
        IF t = strategy_type THEN strategy_class ELSE classes[t]]

\* lines 71-72: the default name of a strategy
DefaultName(strategy_type) == [capitalized |-> strategy_type, suffix |-> "strategy"]

\* lines 49-81 without the membership test and without the try block
create_strategy_unguarded(classes, strategy_type, name, constructed) ==
    IF strategy_type \notin DOMAIN classes
    THEN [raised |-> TRUE, exception |-> "KeyError", ret |-> None]
    ELSE IF constructed.status = "raised"
    THEN [raised |-> TRUE, exception |-> constructed.exception, ret |-> None]
    ELSE [raised |-> FALSE, exception |-> "none", ret |-> constructed.instance]

\* lines 49-81: what the call does, given what the constructor did;
\* constructed is [status, exception, instance]
create_strategy(classes, strategy_type, name, constructed) ==
    IF strategy_type \notin DOMAIN classes
    THEN [raised |-> FALSE, exception |-> "none", ret |-> None]
    ELSE IF constructed.status = "raised"
    THEN [raised |-> FALSE, exception |-> "none", ret |-> None]
    ELSE [raised |-> FALSE, exception |-> "none", ret |-> constructed.instance]

FactoryInit ==
    /\ strategy_classes = InitialClasses
    /\ factory_call = None
    /\ BacktestIdle /\ StorageIdle /\ SignalIdle /\ StrategyIdle /\ ManagerIdle

\* StrategyFactory.register_strategy(strategy_type, strategy_class)
RegisterStrategy ==
    /\ \E strategy_type \in StrategyTypes, strategy_class \in StrategyClasses :
          /\ strategy_classes' =
                register_strategy(strategy_classes, strategy_type, strategy_class)
          /\ factory_call' =
                [op |-> "register_strategy", strategy_type |-> strategy_type,
                 before |-> strategy_classes, after |-> strategy_classes']
    /\ UNCHANGED <<backtest_vars, strategy_vars, manager_vars,
                   storage_vars, signal_vars>>

\* the outcomes of line 75 as [status, exception, instance]; the constructor
\* is not reached for an unregistered type
Constructions(strategy_type, name, strategy_params) ==
    IF strategy_type \notin DOMAIN strategy_classes
    THEN {[status |-> "not called", exception |-> "none", instance |-> None]}
    ELSE {IF "exception" \in DOMAIN o
          THEN [status |-> "raised", exception |-> o.exception, instance |-> None]
          ELSE [status |-> "returned", exception |-> "none", instance |-> o] :
             o \in ConstructorOutcomes(
                      strategy_classes[strategy_type],
                      IF name = None THEN DefaultName(strategy_type) ELSE name,
                      strategy_params)}

\* StrategyFactory.create_strategy(strategy_type, name, params)
CreateStrategy ==
    /\ \E strategy_type \in RequestedTypes, name \in StrategyNames,
          strategy_params \in StrategyParams :
          \E constructed \in Constructions(strategy_type, name, strategy_params) :
          \E outcome \in {create_strategy(strategy_classes, strategy_type,
                                          name, constructed)} :
             factory_call' =
                [op |-> "create_strategy", strategy_type |-> strategy_type,
                 constructed |-> constructed, raised |-> outcome.raised,
                 ret |-> outcome.ret,
                 before |-> strategy_classes, after |-> strategy_classes]
    /\ UNCHANGED <<backtest_vars, strategy_vars, manager_vars,
                   strategy_classes, storage_vars, signal_vars>>

FactoryNext == RegisterStrategy \/ CreateStrategy

FactorySpec == FactoryInit /\ [][FactoryNext]_vars

-----------------------------------------------------------------------------
(* CSVStorage (data_storage.py)                                            *)

\* most save_data and delete_data calls of one run
MaxStorageCalls == 2

\* A name is a sequence of parts, so that a suffix can be tested and
\* appended: <<"a", ".csv">> is the string 'a.csv'.
StorageNames == {<<"a">>, <<"a", ".csv">>, <<"b">>}
MetadataFile == <<"metadata", ".json">>

\* the row counts of the frames saved (0: an empty frame) and the metadata
\* arguments
FrameRows == {0, 2}
MetadataArgs == {None, [source |-> "ccxt"]}

\* name.endswith('.csv')
EndsWithCsv(name) == name # <<>> /\ name[Len(name)] = ".csv"

\* lines 143-144, 181-182, 221-222, 271-272
file_name(name) == IF EndsWithCsv(name) THEN name ELSE Append(name, ".csv")

\* dict operations: d[key] = value, del d[key], {**f, **g}
Put(dict, key, value) ==
    [x \in DOMAIN dict \cup {key} |-> IF x = key THEN value ELSE dict[x]]
Del(dict, key) == [x \in DOMAIN dict \ {key} |-> dict[x]]
Merge(f, g) ==
    [x \in DOMAIN f \cup DOMAIN g |-> IF x \in DOMAIN g THEN g[x] ELSE f[x]]

\* the store as one value
Store ==
    [directory |-> directory, metadata |-> metadata,
     metadata_json |-> metadata_json]

\* lines 110-123: _save_metadata
save_metadata(S) ==
    [S EXCEPT !.metadata_json = S.metadata,
              !.directory = @ \cup {MetadataFile}]

\* lines 89-108: the constructor, on a directory that may hold files
CSVStorage_init(S) ==
    IF MetadataFile \in S.directory
    THEN [S EXCEPT !.metadata = S.metadata_json]
    ELSE save_metadata([S EXCEPT !.metadata = EmptyDict])

\* lines 152-157
frame_metadata(rows, md) ==
    Merge([rows |-> rows, columns |-> <<"close", "symbol">>,
           last_modified |-> "now"],
          OrDict(md))

\* lines 125-167
save_data(S, rows, name, md) ==
    IF rows = 0 THEN [store |-> S, ret |-> FALSE]
    ELSE [store |->
             save_metadata(
                 [S EXCEPT
                     !.directory = @ \cup {file_name(name)},
                     !.metadata = Put(@, file_name(name),
                                      frame_metadata(rows, md))]),
          ret |-> TRUE]

\* lines 209-243 without the metadata update of lines 234-236
delete_data_keeps_metadata(S, name) ==
    IF file_name(name) \notin S.directory THEN [store |-> S, ret |-> FALSE]
    ELSE [store |-> [S EXCEPT !.directory = @ \ {file_name(name)}],
          ret |-> TRUE]

\* lines 209-243
delete_data(S, name) ==
    IF file_name(name) \notin S.directory THEN [store |-> S, ret |-> FALSE]
    ELSE [store |->
             IF file_name(name) \in DOMAIN S.metadata
             THEN save_metadata(
                      [S EXCEPT !.directory = @ \ {file_name(name)},
                                !.metadata = Del(@, file_name(name))])
             ELSE [S EXCEPT !.directory = @ \ {file_name(name)}],
          ret |-> TRUE]

\* lines 245-258
list_data(S) == {f \in S.directory : EndsWithCsv(f)}

\* lines 260-275
get_metadata(S, name) ==
    IF file_name(name) \in DOMAIN S.metadata
    THEN S.metadata[file_name(name)]
    ELSE EmptyDict

SetStore(S) ==
    /\ directory' = S.directory
    /\ metadata' = S.metadata
    /\ metadata_json' = S.metadata_json

\* CSVStorage(base_path) on a new directory
StorageInit ==
    /\ \E S \in {CSVStorage_init([directory |-> {}, metadata |-> EmptyDict,
                                    metadata_json |-> EmptyDict])} :
          /\ directory = S.directory
          /\ metadata = S.metadata
          /\ metadata_json = S.metadata_json
    /\ storage_log = <<>>
    /\ storage_call = None
    /\ BacktestIdle /\ FactoryIdle /\ SignalIdle /\ StrategyIdle /\ ManagerIdle

\* a mutating call and its outcome, recorded
Logged(op, name, rows, out) ==
    /\ SetStore(out.store)
    /\ storage_call' = [op |-> op, name |-> name, rows |-> rows, ret |-> out.ret,
                        before |-> Store, after |-> out.store]
    /\ storage_log' = Append(storage_log, storage_call')

\* storage.save_data(data, name, metadata)
SaveData ==
    /\ Len(storage_log) < MaxStorageCalls
    /\ \E rows \in FrameRows, name \in StorageNames, md \in MetadataArgs :
          Logged("save_data", name, rows, save_data(Store, rows, name, md))
    /\ UNCHANGED <<backtest_vars, strategy_vars, manager_vars,
                   factory_vars, signal_vars>>

\* storage.delete_data(name)
DeleteData ==
    /\ Len(storage_log) < MaxStorageCalls
    /\ \E name \in StorageNames :
          Logged("delete_data", name, 0, delete_data(Store, name))
    /\ UNCHANGED <<backtest_vars, strategy_vars, manager_vars,
                   factory_vars, signal_vars>>

\* storage.list_data()
ListData ==
    /\ storage_call' = [op |-> "list_data", ret |-> list_data(Store)]
    /\ UNCHANGED <<backtest_vars, strategy_vars, manager_vars,
                   factory_vars, signal_vars, directory,
                   metadata, metadata_json, storage_log>>

\* storage.get_metadata(name)
GetMetadata ==
    /\ \E name \in StorageNames :
          storage_call' = [op |-> "get_metadata", name |-> name,
                           ret |-> get_metadata(Store, name)]
    /\ UNCHANGED <<backtest_vars, strategy_vars, manager_vars,
                   factory_vars, signal_vars, directory,
                   metadata, metadata_json, storage_log>>

\* a new CSVStorage is constructed on the same base_path
StorageReopen ==
    /\ storage_call # None
    /\ SetStore(CSVStorage_init(Store))
    /\ storage_call' = [op |-> "__init__"]
    /\ UNCHANGED <<backtest_vars, strategy_vars, manager_vars,
                   factory_vars, signal_vars, storage_log>>

StorageNext ==
    \/ SaveData
    \/ DeleteData
    \/ ListData
    \/ GetMetadata
    \/ StorageReopen

StorageSpec == StorageInit /\ [][StorageNext]_vars

-----------------------------------------------------------------------------
(* Strategy.update_parameters (strategy_base.py)                           *)

\* Strategy is abstract: an instance is of a subclass, which inherits
\* validate_parameters (lines 108-115: always valid) or overrides it
ValidatorKinds == {"inherited", "overridden"}

\* parameter dicts: the constructor's and the ones passed to
\* update_parameters; None is what a caller may pass in place of a dict
ParamDicts ==
    {EmptyDict, [period |-> 14], [period |-> 0],
     [period |-> 0, threshold |-> 70], [threshold |-> 30]}
ParamArgs == ParamDicts \cup {None}

\* what self.validate_parameters() does: the inherited method returns
\* (True, ""); an overriding method is code of the subclass, which may
\* accept, reject or raise
ValidationOutcomes(kind) ==
    IF kind = "inherited" THEN {[valid |-> TRUE]}
    ELSE {[valid |-> TRUE], [valid |-> FALSE], Raised("ValueError")}

\* lines 83-93: Strategy.__init__
Strategy_init(name, strategy_params, kind) ==
    [name |-> name, params |-> OrDict(strategy_params), validator |-> kind]

\* lines 117-138 changed to restore the old params when validation fails
update_parameters_with_rollback(strategy, new_params, validation) ==
    IF new_params = None
    THEN [strategy |-> strategy, raised |-> FALSE, ret |-> FALSE]
    ELSE IF "exception" \in DOMAIN validation
    THEN [strategy |-> strategy, raised |-> FALSE, ret |-> FALSE]
    ELSE IF ~validation.valid
    THEN [strategy |-> strategy, raised |-> FALSE, ret |-> FALSE]
    ELSE [strategy |-> [strategy EXCEPT !.params = Merge(@, new_params)],
          raised |-> FALSE, ret |-> TRUE]

\* lines 117-138: dict.update(None) raises TypeError before anything is
\* merged; every exception raised inside the try block is caught
update_parameters(strategy, new_params, validation) ==
    IF new_params = None
    THEN [strategy |-> strategy, raised |-> FALSE, ret |-> FALSE]
    ELSE IF "exception" \in DOMAIN validation
    THEN [strategy |-> [strategy EXCEPT !.params = Merge(@, new_params)],
          raised |-> FALSE, ret |-> FALSE]
    ELSE IF ~validation.valid
    THEN [strategy |-> [strategy EXCEPT !.params = Merge(@, new_params)],
          raised |-> FALSE, ret |-> FALSE]
    ELSE [strategy |-> [strategy EXCEPT !.params = Merge(@, new_params)],
          raised |-> FALSE, ret |-> TRUE]

StrategyInit ==
    /\ strategy_object \in
          {Strategy_init("s", p, kind) :
              p \in {None, [period |-> 14]}, kind \in ValidatorKinds}
    /\ strategy_call = None
    /\ BacktestIdle /\ FactoryIdle /\ StorageIdle /\ SignalIdle /\ ManagerIdle

\* strategy.update_parameters(params)
UpdateParameters ==
    /\ \E new_params \in ParamArgs,
          validation \in ValidationOutcomes(strategy_object.validator) :
          \E out \in {update_parameters(strategy_object, new_params, validation)} :
              /\ strategy_object' = out.strategy
              /\ strategy_call' =
                    [op |-> "update_parameters", params |-> new_params,
                     validation |-> validation, before |-> strategy_object,
                     after |-> out.strategy, raised |-> out.raised,
                     ret |-> out.ret]
    /\ UNCHANGED <<backtest_vars, manager_vars, factory_vars, storage_vars,
                   signal_vars>>

StrategyNext == UpdateParameters

StrategySpec == StrategyInit /\ [][StrategyNext]_vars

-----------------------------------------------------------------------------
(* DatabaseManager (db_manager.py)                                         *)

\* most get_storage and close_all calls of one run
MaxManagerCalls == 3

\* storage_type: "market_data", "trade_data"
StorageTypes == {"market_data", "trade_data"}

\* what closing a storage does: CSVStorage, SQLiteStorage and PickleStorage
\* have no close method, the close of MongoDBStorage and InfluxDBStorage
\* returns or raises
CloseKinds == {"no_close", "closes", "close_raises"}

\* what lines 36-43 meet: no configuration for the type (an empty dict),
\* StorageFactory.create_storage raising, or a new storage instance
CreationOutcomes ==
    {[status |-> "unconfigured"], Raised("ValueError")}
        \cup {[status |-> "created", kind |-> kind] : kind \in CloseKinds}

\* lines 20-52 changed to cache the None of a failed creation
get_storage_caching_failure(instances, storage_type, outcome, id) ==
    IF storage_type \in DOMAIN instances
    THEN [instances |-> instances, ret |-> instances[storage_type]]
    ELSE IF outcome.status = "created"
    THEN [instances |->
             Put(instances, storage_type, [id |-> id, kind |-> outcome.kind]),
          ret |-> [id |-> id, kind |-> outcome.kind]]
    ELSE [instances |-> Put(instances, storage_type, None), ret |-> None]

\* lines 20-52; id is the identity of the instance a creation yields
get_storage(instances, storage_type, outcome, id) ==
    IF storage_type \in DOMAIN instances
    THEN [instances |-> instances, ret |-> instances[storage_type]]
    ELSE IF outcome.status = "unconfigured"
    THEN [instances |-> instances, ret |-> None]
    ELSE IF outcome.status = "raised"
    THEN [instances |-> instances, ret |-> None]
    ELSE [instances |->
             Put(instances, storage_type, [id |-> id, kind |-> outcome.kind]),
          ret |-> [id |-> id, kind |-> outcome.kind]]

\* lines 54-65: every cached storage that has a close method is closed, an
\* exception of a close is logged, and the cache is replaced by an empty one
close_all(instances) ==
    [instances |-> EmptyDict,
     closed |-> {instances[t].id :
                    t \in {x \in DOMAIN instances : instances[x].kind = "closes"}},
     failed |-> {instances[t].id :
                    t \in {x \in DOMAIN instances :
                              instances[x].kind = "close_raises"}}]

\* lines 16-18: DatabaseManager()
ManagerInit ==
    /\ storage_instances = EmptyDict
    /\ manager_log = <<>>
    /\ BacktestIdle /\ FactoryIdle /\ StorageIdle /\ SignalIdle /\ StrategyIdle

\* manager.get_storage(storage_type); the configuration and the factory are
\* consulted only when the type is not cached
GetStorage ==
    /\ Len(manager_log) < MaxManagerCalls
    /\ \E storage_type \in StorageTypes :
          \E outcome \in (IF storage_type \in DOMAIN storage_instances
                          THEN {None} ELSE CreationOutcomes) :
          \E out \in {get_storage(storage_instances, storage_type, outcome,
                                  Len(manager_log) + 1)} :
              /\ storage_instances' = out.instances
              /\ manager_log' = Append(manager_log,
                    [op |-> "get_storage", storage_type |-> storage_type,
                     outcome |-> outcome, before |-> storage_instances,
                     after |-> out.instances, ret |-> out.ret])
    /\ UNCHANGED <<backtest_vars, strategy_vars, factory_vars, storage_vars,
                   signal_vars>>

\* manager.close_all()
CloseAll ==
    /\ Len(manager_log) < MaxManagerCalls
    /\ \E out \in {close_all(storage_instances)} :
          /\ storage_instances' = out.instances
          /\ manager_log' = Append(manager_log,
                [op |-> "close_all", closed |-> out.closed,
                 failed |-> out.failed, before |-> storage_instances,
                 after |-> out.instances])
    /\ UNCHANGED <<backtest_vars, strategy_vars, factory_vars, storage_vars,
                   signal_vars>>

ManagerNext == GetStorage \/ CloseAll

ManagerSpec == ManagerInit /\ [][ManagerNext]_vars

-----------------------------------------------------------------------------
(* Properties                                                              *)

LastCall == calls[Len(calls)]
ExecuteOps == {"buy", "sell", "close_buy", "close_sell"}
IsFlat(L) == L.position.s = 0

\* the calls of _execute_buy and _execute_sell made so far
ExecuteCalls == {i \in 1..Len(calls) : calls[i].op \in ExecuteOps}

\* C1: at every point of a run, position == 0 exactly when open_trade is
\* None.
C1_FlatIffNoOpenTrade == (position.s = 0) <=> (open_trade = None)

\* C2: when a position is left after the bar loop, the end-of-run step
\* closes exactly one more trade, at the last bar's close price and
\* timestamp, and the ledger is flat (position 0, open_trade None) when run
\* returns.
C2_ForcedCloseLeavesFlat ==
    (pc = "done" /\ calls # <<>> /\ LastCall.op \in {"close_buy", "close_sell"}) =>
        /\ Len(trades) = Len(LastCall.before.trades) + 1
        /\ trades[Len(trades)].exit_time = data[Len(data)].timestamp
        /\ LastCall.price = data[Len(data)].close
        /\ position.s = 0
        /\ open_trade = None

\* The concrete scenario of the specification: initial_capital 10000,
\* fee_rate 0.001, slippage 0, position_size 0.1, two bars closing at 100 and
\* 110, one BUY on the first bar and one SELL on the second.
Scenario ==
    /\ initial_capital = RInt(10000)
    /\ fee_rate = RFrac(1, 1000)
    /\ slippage = Zero
    /\ position_size = RFrac(1, 10)
    /\ Len(data) = 2
    /\ data[1].close = RInt(100)
    /\ data[2].close = RInt(110)
    /\ Len(signals) = 2
    /\ signals[1].signal_type = "BUY" /\ signals[1].timestamp = 1
    /\ signals[2].signal_type = "SELL" /\ signals[2].timestamp = 2

\* what the scenario's BUY call does: 10 units bought, capital 8999
ScenarioEntry(c) ==
    /\ REq(c.after.position, RInt(10))
    /\ REq(c.after.capital, RInt(8999))

\* C3 as stated: in the scenario the entry buys 10 units leaving capital
\* 8999, and processing the SELL leaves capital 10097.9 with the closed long
\* trade at profit_loss 97.9 and profit_loss_pct 10.0.
C3_ScenarioLedgerAsStated ==
    Scenario =>
        \A i \in 1..Len(calls) :
            /\ calls[i].op = "buy" => ScenarioEntry(calls[i])
            /\ calls[i].op = "sell" =>
                  /\ REq(calls[i].after.capital, RFrac(100979, 10))
                  /\ calls[i].after.trades[1].direction = "long"
                  /\ REq(calls[i].after.trades[1].profit_loss, RFrac(979, 10))
                  /\ REq(calls[i].after.trades[1].profit_loss_pct, RInt(10))

\* C3 amended: in the scenario the entry buys 10 units leaving capital 8999;
\* the SELL call closes the long, which brings capital to 10097.9 and records
\* profit_loss 98.9 (price gain 100 minus the exit fee 1.1, the entry fee is
\* not charged to the trade) and profit_loss_pct 10.0, and in the same call
\* opens a short of a tenth of that capital, leaving capital 11106.68021.
C3_ScenarioLedger ==
    Scenario =>
        \A i \in 1..Len(calls) :
            /\ calls[i].op = "buy" => ScenarioEntry(calls[i])
            /\ calls[i].op = "sell" =>
                  /\ REq(CloseLong(calls[i].before, calls[i].signal,
                                   calls[i].price).capital,
                         RFrac(100979, 10))
                  /\ Len(calls[i].after.trades) = 1
                  /\ calls[i].after.trades[1].direction = "long"
                  /\ REq(calls[i].after.trades[1].profit_loss, RFrac(989, 10))
                  /\ REq(calls[i].after.trades[1].profit_loss_pct, RInt(10))
                  /\ calls[i].after.position.s < 0
                  /\ REq(calls[i].after.capital, RFrac(1110668021, 100000))

\* C3 witness: the scenario's SELL has been processed
C3_Witness ==
    Scenario /\ \E i \in 1..Len(calls) : calls[i].op = "sell"

\* C4 as stated: the scenario's run returns total_trades 1, winning_trades 1,
\* win_rate 100 and profit_factor +infinity.
C4_ScenarioResultAsStated ==
    (Scenario /\ pc = "done") =>
        /\ result.metrics.total_trades = 1
        /\ result.metrics.winning_trades = 1
        /\ REq(result.metrics.win_rate, RInt(100))
        /\ IsInf(result.metrics.profit_factor)

\* C4 amended: the scenario's run returns total_trades 2 (the long closed by
\* the SELL, and the short the same SELL opened, closed by the end-of-run
\* step at a loss of its exit fee), winning_trades 1, losing_trades 1,
\* win_rate 50 and profit_factor 98.9 / 1.00979.
C4_ScenarioResult ==
    (Scenario /\ pc = "done") =>
        /\ result.metrics.total_trades = 2
        /\ result.metrics.winning_trades = 1
        /\ result.metrics.losing_trades = 1
        /\ REq(result.metrics.win_rate, RInt(50))
        /\ ~IsInf(result.metrics.profit_factor)
        /\ REq(result.metrics.profit_factor, RFrac(9890000, 100979))

\* C4 witness: the scenario's run has returned
C4_Witness == Scenario /\ pc = "done" /\ result # None

\* a run over two bars in which the strategy emitted nothing has returned
NoSignalRunDone == pc = "done" /\ signals = <<>> /\ Len(data) = 2

\* C5 as stated: a run over two bars without signals yields an equity curve
\* of exactly 2 samples, both equal to initial_capital, and zero metrics.
C5_NoSignalCurveAsStated ==
    NoSignalRunDone =>
        /\ Len(result.equity_curve) = 2
        /\ \A i \in 1..Len(result.equity_curve) :
              REq(result.equity_curve[i].equity, initial_capital)
        /\ result.metrics = ZeroMetrics

\* C5 amended: a run over two bars without signals yields an equity curve of
\* exactly 1 sample, stamped with the first bar's timestamp and equal to
\* initial_capital, and all metrics at their zero defaults.
C5_NoSignalCurve ==
    NoSignalRunDone =>
        /\ Len(result.equity_curve) = 1
        /\ result.equity_curve[1].timestamp = data[1].timestamp
        /\ REq(result.equity_curve[1].equity, initial_capital)
        /\ result.metrics = ZeroMetrics
        /\ result.trades = <<>>

\* C5 witness: such a run has returned
C5_Witness == NoSignalRunDone /\ result # None

\* the call c buys against a short position or sells against a long one
Closes(c) ==
    \/ c.op \in {"buy", "close_buy"} /\ c.before.position.s < 0
    \/ c.op \in {"sell", "close_sell"} /\ c.before.position.s > 0

\* t is the record of the open trade that the call c closed
IsClosingOf(t, c) ==
    /\ c.before.open_trade # None
    /\ Closes(c)
    /\ t.entry_signal = c.before.open_trade.entry_signal
    /\ t.entry_time = c.before.open_trade.entry_time
    /\ t.exit_signal = c.signal
    /\ t.exit_time = c.signal.timestamp
    /\ t.status = "closed"

\* C6: a new open TradeRecord is never created while an earlier one is still
\* open: the earlier one is first closed and appended to the history.
C6_AtMostOneOpenTrade ==
    \A i \in ExecuteCalls :
        LET c == calls[i]
        IN  (c.after.open_trade # None /\ c.after.open_trade # c.before.open_trade) =>
                \/ c.before.open_trade = None
                \/ /\ Len(c.after.trades) = Len(c.before.trades) + 1
                   /\ IsClosingOf(c.after.trades[Len(c.after.trades)], c)

IsComplete(t) ==
    /\ t.status = "closed"
    /\ t.exit_time # NoneTime
    /\ t.exit_price # NoneNum
    /\ t.profit_loss # NoneNum
    /\ t.profit_loss_pct # NoneNum

\* C7: every record of the trade history is closed, with exit_time,
\* exit_price, profit_loss and profit_loss_pct set, and a record is appended
\* only by the call that closes its position.
C7_ClosedTradeCompleteness ==
    /\ \A i \in 1..Len(trades) : IsComplete(trades[i])
    /\ (pc = "done" /\ "trades" \in DOMAIN result) =>
          \A i \in 1..Len(result.trades) : IsComplete(result.trades[i])
    /\ \A i \in 1..Len(calls) :
          LET c == calls[i]
          IN  \/ c.after.trades = c.before.trades
              \/ /\ c.op \in ExecuteOps
                 /\ Len(c.after.trades) = Len(c.before.trades) + 1
                 /\ SubSeq(c.after.trades, 1, Len(c.before.trades)) = c.before.trades
                 /\ IsClosingOf(c.after.trades[Len(c.after.trades)], c)
    /\ Len(trades) = Cardinality({i \in ExecuteCalls : Closes(calls[i])})

\* C7 witness: a trade has been closed and appended, and another is open
C7_Witness ==
    /\ Len(trades) >= 1
    /\ open_trade # None
    /\ IsComplete(trades[Len(trades)])

\* the notional of an entry from the ledger L plus its fee exceeds the capital
EntryExceedsCapital(L) ==
    LET notional == RMul(L.capital, position_size)
    IN  RLt(L.capital, RAdd(notional, RMul(notional, fee_rate)))

\* C8: an entry from a flat ledger, BUY or SELL, whose notional plus fee
\* exceeds the capital is a no-op: the ledger is unchanged.
C8_EntryGuardBothSides ==
    \A i \in 1..Len(calls) :
        LET c == calls[i]
        IN  (/\ c.op \in {"buy", "sell"}
             /\ IsFlat(c.before)
             /\ c.before.open_trade = None
             /\ EntryExceedsCapital(c.before)) => c.after = c.before

\* the calls that process a signal of the strategy
StrategyCalls == {i \in 1..Len(calls) : calls[i].op \in {"buy", "sell", "hold"}}

HasBar(sig) == \E b \in 1..Len(data) : data[b].timestamp = sig.timestamp

\* C9: a strategy signal is processed only during the bar whose timestamp
\* equals its own, at most once; a signal whose timestamp matches no bar is
\* never processed; a HOLD signal leaves the ledger unchanged; and the
\* ledger changes in no other way than by these calls, the mark-to-market
\* update and the end-of-run close.
C9_ExactBarExecution ==
    /\ \A i \in StrategyCalls :
          /\ calls[i].signal.timestamp = data[calls[i].bar].timestamp
          /\ \E j \in 1..Len(signals) : signals[j] = calls[i].signal
          /\ calls[i].op = "hold" <=> calls[i].signal.signal_type = "HOLD"
          /\ calls[i].op = "hold" => calls[i].after = calls[i].before
    /\ \A i, j \in StrategyCalls :
          calls[i].signal.id = calls[j].signal.id => i = j
    /\ \A j \in 1..Len(signals) :
          ~HasBar(signals[j]) =>
              \A i \in StrategyCalls : calls[i].signal.id # signals[j].id
    /\ \A i \in 1..Len(calls) :
          calls[i].before = IF i = 1
                            THEN [capital |-> initial_capital, position |-> Zero,
                                  position_value |-> Zero, trades |-> <<>>,
                                  open_trade |-> None]
                            ELSE calls[i - 1].after
    /\ calls # <<>> => Ledger = LastCall.after

\* C9 witness: a run has ended in which a signal was executed on its bar and
\* another signal, matching no bar, was not
C9_Witness ==
    /\ pc = "done"
    /\ \E i \in StrategyCalls : calls[i].op \in {"buy", "sell"}
    /\ \E j \in 1..Len(signals) :
          /\ ~HasBar(signals[j])
          /\ signals[j].signal_type \in {"BUY", "SELL"}

SampleCalls == {i \in 1..Len(calls) : calls[i].op = "sample"}

C10_Samples ==
    signals # <<>> =>
        /\ Len(equity_curve) = Cardinality(SampleCalls)
        /\ \A b \in 1..Len(equity_curve) :
              equity_curve[b].timestamp = data[b].timestamp
        /\ pc \in {"close", "result", "done"} => Len(equity_curve) = Len(data)
        /\ \A i \in SampleCalls :
              LET c == calls[i]
              IN  /\ c.bar <= Len(equity_curve)
                  /\ REq(equity_curve[c.bar].equity,
                         RAdd(c.before.capital, c.before.position_value))
                  /\ REq(c.after.position_value, RMul(c.before.position, c.price))
                  /\ \A j \in StrategyCalls : calls[j].bar = c.bar => j > i
                  /\ \A j \in SampleCalls : calls[j].bar = c.bar => j = i
        /\ (pc = "done" /\ data # <<>>) => result.equity_curve = equity_curve

C10_AppendOnly ==
    \/ equity_curve' = equity_curve
    \/ /\ Len(equity_curve') = Len(equity_curve) + 1
       /\ SubSeq(equity_curve', 1, Len(equity_curve)) = equity_curve

\* C10: when the strategy yields a signal, run appends exactly one sample per
\* bar, in bar order, each before the bar's mark-to-market update and before
\* any signal of the bar is executed; samples are never removed or
\* reordered.
C10_SamplingOrder == []C10_Samples /\ [][C10_AppendOnly]_vars

\* C10 witness: a run over two bars has ended whose second sample was taken
\* with a position open, at a close other than the first bar's
C10_Witness ==
    /\ pc = "done"
    /\ signals # <<>>
    /\ Len(equity_curve) = 2
    /\ data[1].close # data[2].close
    /\ \E i \in SampleCalls : calls[i].bar = 2 /\ calls[i].before.position.s # 0


\* run has returned a BacktestResult (it did not raise)
Returned == pc = "done" /\ "metrics" \in DOMAIN result

\* the metrics that are counts
MetricCounts == {"total_trades", "winning_trades", "losing_trades"}

\* C11: whenever the trade history is empty when the result is constructed,
\* calculate_metrics returns total_trades 0 and every other metric 0,
\* whatever the equity curve holds.
C11_ZeroTradeDefault ==
    (Returned /\ result.trades = <<>>) =>
        \A f \in DOMAIN result.metrics :
            result.metrics[f] = IF f \in MetricCounts THEN 0 ELSE Zero

\* C11 witness: a run with signals, none of which closed a trade, has
\* returned with two recorded equity samples
C11_Witness ==
    /\ Returned /\ result.trades = <<>>
    /\ signals # <<>> /\ Len(result.equity_curve) = 2
    /\ \E i \in 1..Len(calls) : calls[i].op = "buy"

GrossProfit(tr) ==
    LET Won(t) == t.profit_loss.s > 0
        PL(t) == t.profit_loss
    IN  RSum(Map(SelectSeq(tr, Won), PL))

\* absolute sum of the negative profit_loss values of a trade list
GrossLoss(tr) ==
    LET Lost(t) == t.profit_loss.s < 0
        PL(t) == t.profit_loss
    IN  RAbs(RSum(Map(SelectSeq(tr, Lost), PL)))

\* C13: for a non-empty set of closed trades, profit_factor is gross_profit /
\* gross_loss when gross_loss is not 0, +infinity when gross_loss is 0 and
\* gross_profit is positive, and 0 when both are 0.
C13_ProfitFactorCases ==
    (Returned /\ result.trades # <<>>) =>
        LET gp == GrossProfit(result.trades)
            gl == GrossLoss(result.trades)
            pf == result.metrics.profit_factor
        IN  /\ gl.s # 0 => ~IsInf(pf) /\ REq(RMul(pf, gl), gp)
            /\ (gl.s = 0 /\ gp.s > 0) => pf = Inf
            /\ (gl.s = 0 /\ gp.s = 0) => pf = Zero

\* C13 witness: a run whose closed trades hold a winner and no loser has
\* returned
C13_Witness ==
    /\ Returned /\ result.trades # <<>>
    /\ GrossLoss(result.trades).s = 0
    /\ GrossProfit(result.trades).s > 0

\* the equity values of the result's curve
ResultValues == [i \in 1..Len(result.equity_curve) |-> result.equity_curve[i].equity]

\* the highest of the first i values
RunningMaxAt(values, i) ==
    CHOOSE m \in {values[j] : j \in 1..i} : \A j \in 1..i : RLe(values[j], m)

DrawdownAt(values, i) == RSub(RunningMaxAt(values, i), values[i])

NonDecreasing(values) ==
    \A i \in 1..(Len(values) - 1) : RLe(values[i], values[i + 1])

\* C14: for every equity curve a run produces, max_drawdown and
\* max_drawdown_pct are at least 0, both are 0 when the samples never
\* decrease, and max_drawdown is the largest difference between the running
\* maximum and the raw equity value.
C14_DrawdownNonNegative ==
    Returned =>
        /\ result.metrics.max_drawdown.s >= 0
        /\ result.metrics.max_drawdown_pct.s >= 0
        /\ NonDecreasing(ResultValues) =>
              /\ result.metrics.max_drawdown.s = 0
              /\ result.metrics.max_drawdown_pct.s = 0
        /\ result.trades # <<>> =>
              /\ \E i \in 1..Len(ResultValues) :
                    REq(result.metrics.max_drawdown, DrawdownAt(ResultValues, i))
              /\ \A i \in 1..Len(ResultValues) :
                    RLe(DrawdownAt(ResultValues, i), result.metrics.max_drawdown)

\* C14 witness: a run with trades has returned a curve that fell below its
\* running maximum
C14_Witness ==
    /\ Returned /\ result.trades # <<>>
    /\ result.metrics.max_drawdown.s > 0
    /\ result.metrics.max_drawdown_pct.s > 0

\* a reported metric is a real number or +infinity: a count, a rational, or
\* a power of a positive base or with a whole exponent 365 / days
DefinedMetric(f, x) ==
    \/ f \in MetricCounts
    \/ "kind" \notin DOMAIN x
    \/ x.kind = "power" /\ (x.base.s > 0 \/ 365 % x.days = 0)

\* C15: for every outcome a run reaches, calculate_metrics does not raise
\* and every reported metric is a defined real number or +infinity, never
\* NaN or undefined.
C15_MetricTotality ==
    Returned =>
        \A f \in DOMAIN result.metrics : DefinedMetric(f, result.metrics[f])


\* the calls of _execute_buy and of _execute_sell
BuyOps == {"buy", "close_buy"}
SellOps == {"sell", "close_sell"}

\* the call c appended exactly one trade, a closed one
AppendedOneClosed(c) ==
    /\ Len(c.after.trades) = Len(c.before.trades) + 1
    /\ SubSeq(c.after.trades, 1, Len(c.before.trades)) = c.before.trades
    /\ c.after.trades[Len(c.after.trades)].status = "closed"

\* C19: a BUY processed while short closes the short, appending exactly one
\* closed trade, and in the same call opens a long sized from the
\* post-close capital, so that when the capital guard passes the ledger goes
\* from short to long within the one call; a SELL processed while long
\* closes the long and opens a short in the same call.
C19_CloseAndReverse ==
    \A i \in ExecuteCalls :
        LET c == calls[i]
        IN  /\ (c.op \in BuyOps /\ c.before.position.s < 0) =>
                  LET mid == CloseShort(c.before, c.signal, c.price)
                  IN  /\ AppendedOneClosed(c)
                      /\ c.after.trades[Len(c.after.trades)].direction = "short"
                      /\ ~EntryExceedsCapital(mid) =>
                            /\ c.after.position.s > 0
                            /\ c.after.open_trade # None
                            /\ c.after.open_trade.direction = "long"
                            /\ REq(RMul(c.after.position,
                                        c.after.open_trade.entry_price),
                                   RMul(mid.capital, position_size))
            /\ (c.op \in SellOps /\ c.before.position.s > 0) =>
                  LET mid == CloseLong(c.before, c.signal, c.price)
                  IN  /\ AppendedOneClosed(c)
                      /\ c.after.trades[Len(c.after.trades)].direction = "long"
                      /\ c.after.position.s < 0
                      /\ c.after.open_trade # None
                      /\ c.after.open_trade.direction = "short"
                      /\ REq(RMul(RAbs(c.after.position),
                                  c.after.open_trade.entry_price),
                             RMul(mid.capital, position_size))

\* C20: a BUY processed while long and a SELL processed while short leave
\* capital, position, position_value, open_trade and the trade history
\* unchanged.
C20_NoPyramiding ==
    \A i \in ExecuteCalls :
        LET c == calls[i]
        IN  (\/ c.op \in BuyOps /\ c.before.position.s > 0
             \/ c.op \in SellOps /\ c.before.position.s < 0) =>
                c.after = c.before

\* C20 witness: a BUY was processed while long, in a run that has returned
C20_Witness ==
    /\ pc = "done"
    /\ \E i \in ExecuteCalls :
          /\ calls[i].op = "buy"
          /\ calls[i].before.position.s > 0
          /\ calls[i].before.open_trade # None


\* C16: create_strategy called with a type that is not registered returns
\* None, does not raise and leaves the registry unchanged; an exception
\* raised by the constructor of a registered class becomes a None return.
C16_CreateStrategyNeverRaises ==
    (factory_call # None /\ factory_call.op = "create_strategy") =>
        /\ ~factory_call.raised
        /\ factory_call.after = factory_call.before
        /\ strategy_classes = factory_call.before
        /\ factory_call.strategy_type \notin DOMAIN factory_call.before =>
              /\ factory_call.ret = None
              /\ factory_call.constructed.status = "not called"
        /\ factory_call.constructed.status = "raised" => factory_call.ret = None
        /\ factory_call.constructed.status = "returned" =>
              factory_call.ret = factory_call.constructed.instance

\* C16 witness: after a registration, create_strategy was called with an
\* unregistered type
C16_Witness ==
    /\ factory_call # None /\ factory_call.op = "create_strategy"
    /\ factory_call.strategy_type \notin DOMAIN factory_call.before
    /\ "custom" \in DOMAIN strategy_classes

\* C18: a Signal constructed with an explicit strength s in [0, 1] has
\* strength s, and a Signal constructed without a strength has strength 1.0.
C18_SignalStrength ==
    signal_object # None =>
        /\ signal_args.strength # NoneNum =>
              signal_object.strength = signal_args.strength
        /\ signal_args.strength = NoneNum => signal_object.strength = One


\* the entry a name is listed under: the name itself when it ends with
\* '.csv', the name followed by '.csv' otherwise
StoredAs(name) ==
    IF name[Len(name)] = ".csv" THEN name ELSE name \o <<".csv">>

\* the entries saved with non-empty data among the first i logged calls and
\* not deleted afterwards
LiveEntries(i) ==
    {StoredAs(storage_log[j].name) : j \in
        {j \in 1..i :
            /\ storage_log[j].op = "save_data" /\ storage_log[j].rows > 0
            /\ \A m \in (j + 1)..i :
                  ~(/\ storage_log[m].op = "delete_data"
                    /\ StoredAs(storage_log[m].name) = StoredAs(storage_log[j].name))}}

\* the names, as the caller wrote them, saved with non-empty data among the
\* first i logged calls and not named by a later delete_data
LiveNames(i) ==
    {storage_log[j].name : j \in
        {j \in 1..i :
            /\ storage_log[j].op = "save_data" /\ storage_log[j].rows > 0
            /\ \A m \in (j + 1)..i :
                  ~(/\ storage_log[m].op = "delete_data"
                    /\ storage_log[m].name = storage_log[j].name)}}

\* save_data of an empty frame returns False and leaves the store unchanged
EmptySavesRejected ==
    \A i \in 1..Len(storage_log) :
        (storage_log[i].op = "save_data" /\ storage_log[i].rows = 0) =>
            ~storage_log[i].ret /\ storage_log[i].after = storage_log[i].before

\* C17 as stated: list_data returns exactly '<name>.csv' for the names saved
\* and not subsequently deleted, get_metadata(name) is non-empty exactly for
\* those names, delete_data returns True exactly when the name was present,
\* and a save of an empty frame returns False and changes nothing.
C17_StoredNamesAsStated ==
    /\ (storage_call # None /\ storage_call.op = "list_data") =>
          storage_call.ret =
              {n \o <<".csv">> : n \in LiveNames(Len(storage_log))}
    /\ (storage_call # None /\ storage_call.op = "get_metadata") =>
          (DOMAIN storage_call.ret # {} <=>
              storage_call.name \in LiveNames(Len(storage_log)))
    /\ \A i \in 1..Len(storage_log) :
          storage_log[i].op = "delete_data" =>
              /\ storage_log[i].ret <=> storage_log[i].name \in LiveNames(i - 1)
              /\ ~storage_log[i].ret =>
                    storage_log[i].after = storage_log[i].before
    /\ EmptySavesRejected

\* C17 amended: a name is stored under the entry that is the name itself
\* when it ends with '.csv' and '<name>.csv' otherwise, so 'a' and 'a.csv'
\* are one entry.  list_data returns exactly the entries saved and not
\* subsequently deleted, get_metadata(name) is non-empty exactly for the
\* names of those entries, delete_data returns True exactly when the name's
\* entry was present (False otherwise, changing nothing), and a save of an
\* empty frame returns False and changes nothing.
C17_StoredNames ==
    /\ (storage_call # None /\ storage_call.op = "list_data") =>
          storage_call.ret = LiveEntries(Len(storage_log))
    /\ (storage_call # None /\ storage_call.op = "get_metadata") =>
          (DOMAIN storage_call.ret # {} <=>
              StoredAs(storage_call.name) \in LiveEntries(Len(storage_log)))
    /\ \A i \in 1..Len(storage_log) :
          storage_log[i].op = "delete_data" =>
              /\ storage_log[i].ret <=>
                    StoredAs(storage_log[i].name) \in LiveEntries(i - 1)
              /\ ~storage_log[i].ret =>
                    storage_log[i].after = storage_log[i].before
    /\ EmptySavesRejected

\* C17 witness: a name was saved, deleted under its other spelling, and
\* its metadata then asked for
C17_Witness ==
    /\ Len(storage_log) = 2
    /\ storage_log[1].op = "save_data" /\ storage_log[1].ret
    /\ storage_log[2].op = "delete_data" /\ storage_log[2].ret
    /\ storage_log[1].name # storage_log[2].name
    /\ storage_call.op = "get_metadata"
    /\ storage_call.name = storage_log[1].name


\* the calls that closed an open trade, and the record each one appended
ClosingCalls ==
    {i \in ExecuteCalls : Closes(calls[i]) /\ calls[i].before.open_trade # None}
ClosedBy(c) == c.after.trades[Len(c.before.trades) + 1]

\* the slippage-adjusted mark price of the closing half of the call c: marked
\* up for a cover, marked down for a sale
CloseFill(c) ==
    RMul(c.price, IF c.before.position.s < 0 THEN RAdd(One, slippage)
                  ELSE RSub(One, slippage))

\* the price change of a closed trade, counted in the direction closed
PriceGain(c, entry_price, fill) ==
    IF c.before.position.s < 0 THEN RSub(entry_price, fill)
    ELSE RSub(fill, entry_price)

\* the record t closed by the call c has the exit price fill, and the
\* profit and percentage realized at it for the quantity closed on a trade
\* entered at entry_price
RealizedAt(c, t, entry_price, fill, quantity) ==
    /\ REq(t.exit_price, fill)
    /\ REq(t.profit_loss,
           RSub(RMul(PriceGain(c, entry_price, fill), quantity),
                RMul(RMul(quantity, fill), fee_rate)))
    /\ REq(t.profit_loss_pct,
           RMul(RDiv(PriceGain(c, entry_price, fill), entry_price), Hundred))

\* C21: a trade closed by a cover has profit_loss = (entry_price - fill) *
\* quantity - exit fee and a trade closed by a sale has profit_loss = (fill -
\* entry_price) * quantity - exit fee, where fill is the slippage-adjusted
\* mark price, quantity the size of the position closed and the fee the
\* closing fee (quantity * fill * fee_rate) only; profit_loss_pct is the
\* price change relative to entry_price times 100, whatever the fees, the
\* capital and the equity.
C21_RealizedPnL ==
    \A i \in ClosingCalls :
        RealizedAt(calls[i], ClosedBy(calls[i]),
                   calls[i].before.open_trade.entry_price,
                   CloseFill(calls[i]), RAbs(calls[i].before.position))

\* C21 witness: a run with a fee has closed a long at a price other than
\* its entry price, and a short
C21_Witness ==
    /\ fee_rate.s > 0
    /\ \E i, j \in ClosingCalls :
          /\ calls[i].before.position.s < 0
          /\ calls[j].before.position.s > 0
          /\ ClosedBy(calls[j]).profit_loss_pct.s # 0


\* the calls that opened a position, and whether the call first closed one
EntryCalls ==
    {i \in ExecuteCalls :
        /\ calls[i].after.open_trade # None
        /\ calls[i].after.open_trade # calls[i].before.open_trade}

\* the slippage-adjusted mark price of the opening half of the call c
EntryFill(c) ==
    RMul(c.price, IF c.op \in BuyOps THEN RAdd(One, slippage)
                  ELSE RSub(One, slippage))

\* the capital at the moment of entry in the call c: the capital before the
\* call, less the cost and fee of a cover or plus the proceeds less the fee
\* of a sale when the call first closes a position
EntryCapital(c) ==
    IF ~Closes(c) THEN c.before.capital
    ELSE IF c.before.position.s < 0
    THEN RSub(c.before.capital,
              RMul(RMul(RAbs(c.before.position), CloseFill(c)),
                   RAdd(One, fee_rate)))
    ELSE RAdd(c.before.capital,
              RMul(RMul(c.before.position, CloseFill(c)),
                   RSub(One, fee_rate)))

\* the position opened by the call c has the given notional at the price fill
SizedAt(c, notional, fill) ==
    /\ REq(c.after.open_trade.entry_price, fill)
    /\ REq(c.after.open_trade.quantity, RDiv(notional, fill))
    /\ REq(c.after.position,
           IF c.op \in BuyOps THEN c.after.open_trade.quantity
           ELSE RNeg(c.after.open_trade.quantity))

\* C22: every newly opened position, long or short, the reopening half of a
\* close-and-reverse included, has notional = capital at the moment of entry
\* * position_size and quantity = notional / slippage-adjusted fill price.
C22_CompoundingSize ==
    \A i \in EntryCalls :
        SizedAt(calls[i], RMul(EntryCapital(calls[i]), position_size),
                EntryFill(calls[i]))

\* C22 witness: a position was opened by the call that closed the previous
\* one, from a capital other than initial_capital, a tenth of it being used
C22_Witness ==
    /\ position_size = RFrac(1, 10)
    /\ \E i \in EntryCalls :
          /\ Closes(calls[i])
          /\ ~REq(EntryCapital(calls[i]), initial_capital)
          /\ calls[i].after.position.s # 0


\* the ledger L is marked to the given close
MarkedAt(L, close) == REq(L.position_value, RMul(L.position, close))

\* C23: after every bar is processed position_value == position * that
\* bar's close (negative for a short), so every equity sample recorded at
\* the start of the next bar equals capital + position * the previous bar's
\* close, for long, short and flat ledgers alike.
C23_MarkToMarket ==
    /\ pc = "close" /\ data # <<>> =>
          MarkedAt(Ledger, data[Len(data)].close)
    /\ \A i \in SampleCalls :
          calls[i].bar > 1 =>
              /\ MarkedAt(calls[i].before, data[calls[i].bar - 1].close)
              /\ REq(equity_curve[calls[i].bar].equity,
                     RAdd(calls[i].before.capital,
                          RMul(calls[i].before.position,
                               data[calls[i].bar - 1].close)))


\* the signal list is in timestamp order, signals of one timestamp in the
\* order the strategy emitted them (id is the place in the emitted list)
StablySorted ==
    \A i, j \in 1..Len(signals) :
        i < j =>
            /\ signals[i].timestamp <= signals[j].timestamp
            /\ signals[i].timestamp = signals[j].timestamp =>
                  signals[i].id < signals[j].id

\* the bar loop is over
BarsDone == pc \in {"close", "result", "done"}

\* the capital c allows a long entry of positive size: the guard of line 420
\* passes for the notional c * position_size
AllowsLong(c) ==
    /\ c.s > 0 /\ position_size.s > 0
    /\ RLe(RMul(RMul(c, position_size), RAdd(One, fee_rate)), c)

\* the call c2 closed the position the call c1 opened from flat, appending
\* the one closed trade of the given direction
ClosedTheEntryOf(c1, c2, direction) ==
    /\ Len(c2.after.trades) = Len(c1.before.trades) + 1
    /\ ClosedBy(c2).direction = direction
    /\ ClosedBy(c2).entry_signal = c1.signal
    /\ ClosedBy(c2).exit_signal = c2.signal

ClosedTrades == {i \in 1..Len(result.trades) : result.trades[i].status = "closed"}
Winners == {i \in ClosedTrades : result.trades[i].profit_loss.s > 0}
Losers == {i \in ClosedTrades : result.trades[i].profit_loss.s <= 0}

\* C25: each closed trade is counted either as winning (profit_loss > 0) or
\* as losing (profit_loss <= 0, exactly 0 included), so winning_trades +
\* losing_trades == total_trades and win_rate == winning_trades /
\* total_trades * 100.
C25_WinLossPartition ==
    (Returned /\ result.trades # <<>>) =>
        /\ result.metrics.total_trades = Cardinality(ClosedTrades)
        /\ result.metrics.winning_trades = Cardinality(Winners)
        /\ result.metrics.losing_trades = Cardinality(Losers)
        /\ result.metrics.winning_trades + result.metrics.losing_trades
              = result.metrics.total_trades
        /\ REq(result.metrics.win_rate,
               RFrac(100 * result.metrics.winning_trades,
                     result.metrics.total_trades))


\* C26: in every reachable state with an open trade, direction 'long'
\* implies position > 0 and direction 'short' implies position < 0, also
\* after earlier trades have driven capital to zero or below.
C26_DirectionSign ==
    open_trade # None =>
        /\ open_trade.direction = "long" => position.s > 0
        /\ open_trade.direction = "short" => position.s < 0


\* the fee charged when the trade t was entered: entry notional * fee_rate
EntryFee(t) == RMul(RMul(t.quantity, t.entry_price), fee_rate)

\* profit_loss less the entry fee, summed over the trades of tr
RECURSIVE NetOfEntryFees(_)
NetOfEntryFees(tr) ==
    IF tr = <<>> THEN Zero
    ELSE RAdd(RSub(tr[1].profit_loss, EntryFee(tr[1])), NetOfEntryFees(Tail(tr)))

\* the cash identity on the ledger L
CashIdentity(L) ==
    REq(RSub(L.capital, initial_capital), NetOfEntryFees(L.trades))

\* the ledger between the two halves of the call c, when its position has
\* been closed and the next one is not yet opened (lines 408-411, 478-481)
AfterCloseHalf(c) ==
    IF c.before.position.s < 0 THEN CloseShort(c.before, c.signal, c.price)
    ELSE CloseLong(c.before, c.signal, c.price)

\* C27: in any state where no position is open, capital - initial_capital
\* equals the sum of profit_loss over all closed trades minus the sum of
\* those trades' entry fees (entry fee = entry notional * fee_rate).  The
\* states where no position is open are those between calls with position
\* 0 and the ones inside a call that has closed a position and not yet
\* opened the next.
C27_CashIdentity ==
    /\ (pc # "idle" /\ position.s = 0) => CashIdentity(Ledger)
    /\ \A i \in ClosingCalls :
          /\ AfterCloseHalf(calls[i]).position.s = 0
          /\ CashIdentity(AfterCloseHalf(calls[i]))

\* C27 witness: with a fee charged, a round trip has been closed and the run
\* has ended with no position open, its capital changed
C27_Witness ==
    /\ pc = "done"
    /\ position.s = 0 /\ open_trade = None
    /\ fee_rate.s > 0
    /\ Len(trades) >= 1
    /\ ~REq(capital, initial_capital)


\* the sample call of the last bar
LastSampleCalls == {i \in SampleCalls : calls[i].bar = Len(data)}

\* the last sample of the result returned
FinalSample == result.equity_curve[Len(result.equity_curve)]

\* C28: the last bar's signals and the forced close append no equity sample,
\* so the last sample of the result, and therefore total_return = last
\* sample - initial_capital, is the equity recorded at the start of the last
\* bar (capital + position_value before that bar's mark-to-market update and
\* signals).
C28_FinalEquityBeforeLastBar ==
    /\ (signals # <<>> /\ data # <<>>) =>
          \A i \in LastSampleCalls :
              /\ Len(equity_curve) = Len(data)
              /\ \A j \in (i + 1)..Len(calls) : calls[j].op # "sample"
              /\ REq(equity_curve[Len(data)].equity,
                     RAdd(calls[i].before.capital, calls[i].before.position_value))
    /\ (Returned /\ signals # <<>> /\ data # <<>>) =>
          /\ LastSampleCalls # {}
          /\ Len(result.equity_curve) = Len(data)
          /\ FinalSample = equity_curve[Len(data)]
          /\ FinalSample.timestamp = data[Len(data)].timestamp
          /\ result.trades # <<>> =>
                REq(result.metrics.total_return,
                    RSub(FinalSample.equity, initial_capital))

\* C28 witness: a run has returned in which a trade was executed on the last
\* bar and closed by the forced close, and the final ledger's capital +
\* position_value differs from the last sample
C28_Witness ==
    /\ Returned /\ Len(data) = 2
    /\ \E i \in StrategyCalls :
          calls[i].bar = Len(data) /\ calls[i].after # calls[i].before
    /\ LastCall.op \in {"close_buy", "close_sell"}
    /\ result.trades # <<>>
    /\ ~REq(FinalSample.equity, RAdd(capital, position_value))


\* d is the dict old updated with the dict new
UpdatedWith(d, old, new) ==
    /\ DOMAIN d = DOMAIN old \cup DOMAIN new
    /\ \A key \in DOMAIN new : d[key] = new[key]
    /\ \A key \in DOMAIN old \ DOMAIN new : d[key] = old[key]

\* the validation of the last call passed
Validated == "valid" \in DOMAIN strategy_call.validation /\ strategy_call.validation.valid

\* C29: update_parameters merges the new parameters into params before
\* validating and does not roll back: when validate_parameters reports the
\* merged parameters invalid the call returns False and params keeps the
\* merged values; it returns True only when validation passes; it never
\* raises.
C29_UpdateNoRollback ==
    strategy_call # None =>
        /\ ~strategy_call.raised
        /\ strategy_call.ret \in BOOLEAN
        /\ strategy_call.ret => strategy_call.params # None /\ Validated
        /\ strategy_call.params # None =>
              /\ UpdatedWith(strategy_object.params, strategy_call.before.params,
                             strategy_call.params)
              /\ strategy_call.ret <=> Validated
        /\ strategy_call.params = None =>
              strategy_object.params = strategy_call.before.params
        /\ strategy_object.name = strategy_call.before.name

\* C29 witness: the validator rejected parameters that changed params; the
\* call returned False
C29_Witness ==
    /\ strategy_call # None
    /\ strategy_call.params # None
    /\ "valid" \in DOMAIN strategy_call.validation
    /\ ~strategy_call.validation.valid
    /\ ~strategy_call.ret
    /\ strategy_object.params # strategy_call.before.params


\* the get_storage calls for the type t among the calls made
GetCalls(t) ==
    {i \in 1..Len(manager_log) :
        manager_log[i].op = "get_storage" /\ manager_log[i].storage_type = t}

\* no close_all was called between the calls i and j
NoCloseBetween(i, j) ==
    \A m \in (i + 1)..(j - 1) : manager_log[m].op # "close_all"

\* the instances get_storage returned before the call i
ReturnedBefore(i) ==
    {manager_log[j].ret : j \in
        {j \in 1..(i - 1) :
            manager_log[j].op = "get_storage" /\ manager_log[j].ret # None}}

\* the type of the call i was cached when the call was made: an earlier call
\* for it returned an instance and no close_all came between
CachedAt(i) ==
    \E j \in GetCalls(manager_log[i].storage_type) :
        j < i /\ manager_log[j].ret # None /\ NoCloseBetween(j, i)

\* C30: get_storage(t) returns the same instance on repeated calls for one
\* type until close_all is called; an unconfigured or failed creation
\* returns None and is not cached, so that a later call tries again; and
\* close_all always leaves the cache empty, also when a close raises.
C30_InstanceCache ==
    /\ \A t \in StorageTypes :
          \A i, j \in GetCalls(t) :
              (i < j /\ manager_log[i].ret # None /\ NoCloseBetween(i, j)) =>
                  manager_log[j].ret = manager_log[i].ret
    /\ \A i \in 1..Len(manager_log) :
          LET c == manager_log[i]
          IN  /\ (c.op = "get_storage" /\ ~CachedAt(i)) =>
                    /\ c.storage_type \notin DOMAIN c.before
                    /\ c.outcome.status # "created" =>
                          c.ret = None /\ c.after = c.before
                    /\ c.outcome.status = "created" =>
                          /\ c.ret # None
                          /\ c.ret \notin ReturnedBefore(i)
                          /\ c.after[c.storage_type] = c.ret
              /\ c.op = "close_all" => c.after = EmptyDict
    /\ (manager_log # <<>> /\ manager_log[Len(manager_log)].op = "close_all") =>
          storage_instances = EmptyDict

\* C30 witness: a creation failed, the next call for the type created an
\* instance, and a close_all in which a close raised emptied the cache
C30_Witness ==
    /\ Len(manager_log) = 3
    /\ manager_log[1].op = "get_storage" /\ manager_log[1].ret = None
    /\ manager_log[2].op = "get_storage" /\ manager_log[2].ret # None
    /\ manager_log[2].storage_type = manager_log[1].storage_type
    /\ manager_log[3].op = "close_all" /\ manager_log[3].failed # {}
    /\ storage_instances = EmptyDict

=============================================================================
